---- MODULE Spec2Model ----
(***************************************************************************)
(* Verification model of the ferromic dN/dS tooling:                       *)
(*   src/dnds.py                 - per-region pairwise CODEML pipeline     *)
(*   src/pairwise_matrix_test.py - per-CDS analysis, overlap clustering    *)
(*                                 and evidence combination                *)
(*                                                                         *)
(* Strings that the code inspects character by character (sample names,    *)
(* CDS identifiers) are sequences of one-character strings.  Floats are    *)
(* records [nan, v]: NaN, or the number v.                                 *)
(***************************************************************************)
EXTENDS Integers, Sequences, FiniteSets, TLC

VARIABLES
    \* ---- src/dnds.py : process_phy_file --------------------------------
    phy,            \* parsed lines of the .phy file: <<[name, seq], ...>>
    group,          \* group number of the file name, or None
    pc,             \* position of process_phy_file
    sequences,      \* dict new_sample_name -> sequence, in insertion order
    sample_groups,  \* dict sample name -> group
    pairs,          \* list of generated pairs <<a, b>>
    pending,        \* indexes of pairs whose result was not yet collected
    results,        \* list of collected result tuples
    completed,      \* progress counter of the collection loop
    working_dirs,   \* scratch directories that exist under temp_dir
    codeml_calls,   \* pair index -> number of run_codeml invocations
    codeml_procs,   \* pair index -> how its CODEML process ended, and its state
    output_csv,     \* rows written to <cds>.csv (<<>> while not written)
    haplotype_csv,  \* rows written to <cds>_haplotype_stats.csv
    ret             \* what process_phy_file returned

dnds_vars == <<phy, group, pc, sequences, sample_groups, pairs, pending, results,
               completed, working_dirs, codeml_calls, codeml_procs, output_csv,
               haplotype_csv, ret>>

VARIABLES
    \* ---- src/pairwise_matrix_test.py : build_overlap_clusters -----------
    cds_list,        \* results_df['CDS']: the region identifiers, in row order
    cl_pc,           \* position of build_overlap_clusters
    cds_coords,      \* parsed (chrom, start, end, cds), sorted before the sweep
    sweep_i,         \* index in cds_coords of the next region of the sweep
    active_regions,  \* list of (chrom, end, cluster id)
    clusters,        \* dict cluster id -> set of identifiers
    cluster_id,      \* next cluster id
    cds_to_cluster   \* dict identifier -> cluster id

cluster_vars == <<cds_list, cl_pc, cds_coords, sweep_i, active_regions,
                  clusters, cluster_id, cds_to_cluster>>

VARIABLES
    \* ---- src/pairwise_matrix_test.py : create_matrices ------------------
    pairwise_dict,   \* dict (seq1, seq2) -> omega
    sequences_0,     \* the sequence ids of group 0
    sequences_1,     \* the sequence ids of group 1
    mx_pc,           \* position of create_matrices
    matrices         \* what create_matrices returned

matrix_vars == <<pairwise_dict, sequences_0, sequences_1, mx_pc, matrices>>

VARIABLES
    \* ---- src/pairwise_matrix_test.py : combine_cluster_evidence ---------
    cluster_cdss,    \* the identifiers of one cluster
    results_df,      \* rows (CDS, observed_effect_size, p_value)
    an_results,      \* results: CDS -> its 'pairwise_comparisons' set
    cmb_pc,          \* position of combine_cluster_evidence
    evidence         \* what combine_cluster_evidence returned

combine_vars == <<cluster_cdss, results_df, an_results, cmb_pc, evidence>>

VARIABLES
    \* ---- src/pairwise_matrix_test.py : main, after the per-CDS analysis --
    main_pc,             \* position of main
    stouffer_checks_size,\* whether the installed combine_pvalues rejects
                         \* weights of another length than the p-values
    todo,                \* cluster ids the loop over clusters has yet to visit
    cluster_stats,       \* dict cluster id -> what combine_cluster_evidence returned
    overall_results,     \* what compute_overall_significance returned
    json_safe_results    \* the dict dumped to overall_results.json

main_vars == <<main_pc, stouffer_checks_size, todo, cluster_stats,
               overall_results, json_safe_results>>

VARIABLES
    \* ---- src/dnds.py : get_safe_process_count ---------------------------
    total_cpus,      \* multiprocessing.cpu_count()
    mem_available,   \* psutil.virtual_memory().available, in GiB
    pool_pc,         \* position of get_safe_process_count
    process_count    \* what get_safe_process_count returned

pool_vars == <<total_cpus, mem_available, pool_pc, process_count>>

VARIABLES
    \* ---- src/pairwise_matrix_test.py : main, the per-CDS analysis --------
    cds_args,        \* the (df_cds, cds) arguments given to executor.map
    cache_dir,       \* the files of CACHE_DIR: path -> content
    task_pc,         \* per argument: position of its analyze_cds_parallel call
    task_result,     \* per argument: the result the call holds or returned
    cds_results,     \* the dict 'results' the coordinator fills
    collected,       \* how many results the coordinator has taken from the map
    run,             \* number of the current run of the program
    saved,           \* per cds: the result handed to its last completed
                     \* save_cached_result, or None
    saved_run,       \* per cds: the run of its first completed save, or 0
    computed,        \* the (cds, run) for which the analysis was carried out
    load_failed      \* the tasks of this run whose pickle.load raised and was caught

cache_vars == <<cds_args, cache_dir, task_pc, task_result, cds_results,
                collected, run, saved, saved_run, computed,
                load_failed>>

VARIABLES
    \* ---- src/dnds.py : main, over several runs of the program ------------
    phy_files,        \* glob('*.phy'): the files, each a name and its lines
    out_dir,          \* output_dir: cds_id -> its pairwise and haplotype csv
    rs_pc,            \* position of main
    files_to_process, \* indexes into phy_files of the files main kept
    work_i,           \* index in files_to_process of the current file
    run_no,           \* number of the current run of the program
    recomputed,       \* the (cds_id, run) in which process_phy_file went
                      \* past its check for existing output
    persisted_run     \* cds_id -> the run that first wrote both its files
                      \* completely, or 0

resume_vars == <<phy_files, out_dir, rs_pc, files_to_process, work_i, run_no,
                 recomputed, persisted_run>>

VARIABLES
    \* ---- src/dnds.py : parse_codeml_output ------------------------------
    codeml_out,      \* the output files CODEML left in the working directory
    parse_pc,        \* position of process_pair after a successful run_codeml
    parse_result     \* the (dN, dS, omega) of the pair and the files read for it

parse_vars == <<codeml_out, parse_pc, parse_result>>

VARIABLES
    \* ---- src/pairwise_matrix_test.py : read_and_preprocess_data ----------
    raw_df,          \* the rows of the CSV file as pd.read_csv gives them
    prep_pc,         \* position of read_and_preprocess_data
    prep_df          \* the DataFrame it returns

prep_vars == <<raw_df, prep_pc, prep_df>>

\* The state of the programs modelled further down
later_vars == <<main_vars, pool_vars, cache_vars, resume_vars, parse_vars, prep_vars>>

vars == <<dnds_vars, cluster_vars, matrix_vars, combine_vars, later_vars>>

\* What the steps of one program leave alone: the state of the others
not_dnds == <<cluster_vars, matrix_vars, combine_vars, later_vars>>
not_cluster == <<dnds_vars, matrix_vars, combine_vars, later_vars>>
not_matrix == <<dnds_vars, cluster_vars, combine_vars, later_vars>>
not_combine == <<dnds_vars, cluster_vars, matrix_vars, later_vars>>

not_main ==
    <<dnds_vars, cluster_vars, matrix_vars, combine_vars, pool_vars, cache_vars, resume_vars, parse_vars, prep_vars>>
not_pool ==
    <<dnds_vars, cluster_vars, matrix_vars, combine_vars, main_vars, cache_vars, resume_vars, parse_vars, prep_vars>>
not_cache ==
    <<dnds_vars, cluster_vars, matrix_vars, combine_vars, main_vars, pool_vars, resume_vars, parse_vars, prep_vars>>
not_resume ==
    <<dnds_vars, cluster_vars, matrix_vars, combine_vars, main_vars, pool_vars, cache_vars, parse_vars, prep_vars>>
not_parse ==
    <<dnds_vars, cluster_vars, matrix_vars, combine_vars, main_vars, pool_vars, cache_vars, resume_vars, prep_vars>>
not_prep ==
    <<dnds_vars, cluster_vars, matrix_vars, combine_vars, main_vars, pool_vars, cache_vars, resume_vars, parse_vars>>
not_dnds_nor_resume ==
    <<cluster_vars, matrix_vars, combine_vars, main_vars, pool_vars, cache_vars, parse_vars, prep_vars>>

\* The part of the state a specification does not exercise stays as it is here
DndsIdle ==
    /\ phy = <<>> /\ group = "None" /\ pc = "idle" /\ sequences = <<>>
    /\ sample_groups = <<>> /\ pairs = <<>> /\ pending = {} /\ results = <<>>
    /\ completed = 0 /\ working_dirs = {} /\ codeml_calls = <<>>
    /\ codeml_procs = <<>>
    /\ output_csv = <<>> /\ haplotype_csv = <<>> /\ ret = "idle"

ClusterIdle ==
    /\ cds_list = <<>> /\ cl_pc = "idle" /\ cds_coords = <<>> /\ sweep_i = 0
    /\ active_regions = <<>> /\ clusters = <<>> /\ cluster_id = 0
    /\ cds_to_cluster = <<>>

MatrixIdle ==
    /\ pairwise_dict = <<>> /\ sequences_0 = <<>> /\ sequences_1 = <<>>
    /\ mx_pc = "idle" /\ matrices = <<>>

CombineIdle ==
    /\ cluster_cdss = {} /\ results_df = <<>> /\ an_results = <<>>
    /\ cmb_pc = "idle" /\ evidence = <<>>

MainIdle ==
    /\ main_pc = "idle" /\ stouffer_checks_size = TRUE /\ todo = <<>>
    /\ cluster_stats = <<>> /\ overall_results = <<>> /\ json_safe_results = <<>>

PoolIdle ==
    /\ total_cpus = 1 /\ mem_available = 0 /\ pool_pc = "idle" /\ process_count = 0

CacheIdle ==
    /\ cds_args = <<>> /\ cache_dir = <<>> /\ task_pc = <<>> /\ task_result = <<>>
    /\ cds_results = <<>> /\ collected = 0 /\ run = 0 /\ saved = <<>>
    /\ saved_run = <<>> /\ computed = {} /\ load_failed = {}

ResumeIdle ==
    /\ phy_files = <<>> /\ out_dir = <<>> /\ rs_pc = "idle" /\ files_to_process = <<>>
    /\ work_i = 0 /\ run_no = 0 /\ recomputed = {} /\ persisted_run = <<>>

ParseIdle ==
    /\ codeml_out = <<>> /\ parse_pc = "idle" /\ parse_result = <<>>

PrepIdle ==
    /\ raw_df = <<>> /\ prep_pc = "idle" /\ prep_df = <<>>

LaterIdle == MainIdle /\ PoolIdle /\ CacheIdle /\ ResumeIdle /\ ParseIdle /\ PrepIdle
LaterIdleButMain == PoolIdle /\ CacheIdle /\ ResumeIdle /\ ParseIdle /\ PrepIdle
LaterIdleButPool == MainIdle /\ CacheIdle /\ ResumeIdle /\ ParseIdle /\ PrepIdle
LaterIdleButCache == MainIdle /\ PoolIdle /\ ResumeIdle /\ ParseIdle /\ PrepIdle
LaterIdleButResume == MainIdle /\ PoolIdle /\ CacheIdle /\ ParseIdle /\ PrepIdle
LaterIdleButParse == MainIdle /\ PoolIdle /\ CacheIdle /\ ResumeIdle /\ PrepIdle
LaterIdleButPrep == MainIdle /\ PoolIdle /\ CacheIdle /\ ResumeIdle /\ ParseIdle

----------------------------------------------------------------------------
\* Bounds of the model

\* longest .phy file (number of sequence lines) of the pipeline model
MaxLines == 3

\* largest number of sequence lines of the pair-generation model
MaxSamples == 6

\* largest number of regions build_overlap_clusters is run on
MaxRegions == 4

\* largest number of entries of a pairwise dict
MaxEntries == 3

\* largest number of regions with a test result
MaxCds == 2

\* largest number of CPUs, and of GiB of available memory, of a machine
MaxCpus == 40
MaxMemGiB == 40

----------------------------------------------------------------------------
\* Floats

NaN == [nan |-> TRUE, v |-> 0]

Num(n) == [nan |-> FALSE, v |-> n]

\* Python None, where a name or a group is looked up
None == "None"

----------------------------------------------------------------------------
\* Strings as sequences of characters

SPACE == " "

\* str.rstrip()
RECURSIVE RStrip(_)
RStrip(s) ==
    IF s = <<>> THEN s
    ELSE IF s[Len(s)] = SPACE THEN RStrip(SubSeq(s, 1, Len(s) - 1)) ELSE s

\* str.lstrip()
RECURSIVE LStrip(_)
LStrip(s) ==
    IF s = <<>> THEN s
    ELSE IF s[1] = SPACE THEN LStrip(Tail(s)) ELSE s

\* str.strip()
Strip(s) == LStrip(RStrip(s))

\* s[:n]
Prefix(s, n) == SubSeq(s, 1, IF Len(s) < n THEN Len(s) ELSE n)

\* str.ljust(n)
RECURSIVE LJust(_, _)
LJust(s, n) == IF Len(s) >= n THEN s ELSE LJust(Append(s, SPACE), n)

\* re.search(r'_(0|1)$', s): the matched digit, or None
GroupSuffix(s) ==
    IF Len(s) >= 2 /\ s[Len(s) - 1] = "_" /\ s[Len(s)] \in {"0", "1"}
    THEN s[Len(s)] ELSE None

----------------------------------------------------------------------------
\* src/dnds.py : sample names

\* width of a PHYLIP sample name
NameWidth == 10

\* The full sample names that occur in the modelled .phy files.
FN_A0 == <<"A", "F", "R", "a", "_", "0">>
FN_B0 == <<"E", "U", "R", "b", "_", "0">>
FN_C0 == <<"S", "A", "S", "c", "_", "0">>
FN_D1 == <<"A", "F", "R", "d", "_", "1">>
FN_E1 == <<"E", "U", "R", "e", "_", "1">>
FN_F1 == <<"S", "A", "S", "f", "_", "1">>
FN_Q  == <<"Q", "x">>

\* generate_checksum: the first three hex digits of the MD5 of the name.  MD5
\* is not computed here; the table gives every modelled name its own digest
\* prefix (any fixed assignment is a possible outcome of the hash).
generate_checksum(full_name) ==
    CASE full_name = FN_A0 -> <<"0", "A", "1">>
      [] full_name = FN_B0 -> <<"1", "B", "2">>
      [] full_name = FN_C0 -> <<"2", "C", "3">>
      [] full_name = FN_D1 -> <<"3", "D", "4">>
      [] full_name = FN_E1 -> <<"4", "E", "5">>
      [] full_name = FN_F1 -> <<"5", "F", "6">>
      [] OTHER             -> <<"F", "F", "F">>

\* parse_phy_file, the renaming of one sample: XXX_YYY_S, padded or cut to
\* NameWidth characters
NewSampleName(full_name) ==
    LET first_three  == Prefix(full_name, 3)
        m            == GroupSuffix(full_name)
        group_suffix == IF m # None THEN m ELSE "0"
        new_name     == first_three \o <<"_">> \o generate_checksum(full_name)
                          \o <<"_", group_suffix>>
    IN  IF Len(new_name) < NameWidth THEN LJust(new_name, NameWidth)
        ELSE Prefix(new_name, NameWidth)

\* validate_sequence: codon-aligned and made of valid bases only
ValidBases == {"A", "T", "C", "G", "N", "a", "t", "c", "g", "n", "-"}

\* TRUE when the sequence is returned, FALSE when None is
validate_sequence(seq) ==
    IF Len(seq) % 3 # 0 THEN FALSE
    ELSE IF \E i \in 1..Len(seq) : seq[i] \notin ValidBases THEN FALSE
    ELSE TRUE

\* Index of name in the dict (0 when absent)
RECURSIVE KeyIndex(_, _, _)
KeyIndex(d, name, i) ==
    IF i > Len(d) THEN 0
    ELSE IF d[i].name = name THEN i ELSE KeyIndex(d, name, i + 1)

\* sequences[name] = seq on an insertion-ordered dict
DictPut(d, name, seq) ==
    LET i == KeyIndex(d, name, 1)
    IN  IF i = 0 THEN Append(d, [name |-> name, seq |-> seq])
        ELSE [d EXCEPT ![i] = [name |-> name, seq |-> seq]]

DictGet(d, name) == d[KeyIndex(d, name, 1)].seq

\* parse_phy_file: the loop over the sequence lines
RECURSIVE parse_phy_file(_, _)
parse_phy_file(lines, acc) ==
    IF lines = <<>> THEN acc
    ELSE LET line == Head(lines)
         IN  parse_phy_file(Tail(lines),
                 IF validate_sequence(line.seq)
                 THEN DictPut(acc, NewSampleName(line.name), line.seq)
                 ELSE acc)

\* extract_group_from_sample: the group "0" or "1" of a name, or None
extract_group_from_sample(sample_name) == GroupSuffix(Strip(sample_name))

\* sample_groups: every sample's own group, or the file's when it has none
AssignGroups(names, file_group) ==
    [n \in {names[i] : i \in DOMAIN names} |->
        LET sample_group == extract_group_from_sample(n)
        IN  IF sample_group # None THEN sample_group ELSE file_group]

\* list(d.keys())
RECURSIVE Keys(_)
Keys(d) == IF d = <<>> THEN <<>> ELSE <<Head(d).name>> \o Keys(Tail(d))

\* [name for name, grp in sample_groups.items() if grp == g]
RECURSIVE NamesOfGroup(_, _, _)
NamesOfGroup(names, groups, g) ==
    IF names = <<>> THEN <<>>
    ELSE (IF groups[Head(names)] = g THEN <<Head(names)>> ELSE <<>>)
         \o NamesOfGroup(Tail(names), groups, g)

\* <<x, l[1]>>, <<x, l[2]>>, ...
RECURSIVE PairWithEach(_, _)
PairWithEach(x, l) ==
    IF l = <<>> THEN <<>> ELSE <<(<<x, Head(l)>>)>> \o PairWithEach(x, Tail(l))

\* list(itertools.combinations(l, 2))
RECURSIVE combinations(_)
combinations(l) ==
    IF l = <<>> THEN <<>>
    ELSE PairWithEach(Head(l), Tail(l)) \o combinations(Tail(l))

\* A plausible slip: pairs over all samples instead of per group
AllPairs(names, groups) == combinations(names)

\* process_phy_file: the pairs generated only within group 0 and within group 1
GeneratePairs(names, groups) ==
    combinations(NamesOfGroup(names, groups, "0"))
        \o combinations(NamesOfGroup(names, groups, "1"))

----------------------------------------------------------------------------
\* src/dnds.py : process_pair

\* What one CODEML run can do: how the process ended, and what
\* parse_codeml_output found in its output files.
ToolOutcomes ==
    { [exit |-> "ok", parsed |-> TRUE, dn |-> Num(1), ds |-> Num(1), omega |-> Num(1)],
      [exit |-> "ok", parsed |-> TRUE, dn |-> Num(3), ds |-> Num(1), omega |-> Num(3)],
      [exit |-> "ok", parsed |-> TRUE, dn |-> Num(0), ds |-> Num(1), omega |-> Num(99)],
      [exit |-> "ok", parsed |-> FALSE, dn |-> NaN, ds |-> NaN, omega |-> NaN],
      [exit |-> "nonzero", parsed |-> FALSE, dn |-> NaN, ds |-> NaN, omega |-> NaN],
      [exit |-> "timeout", parsed |-> TRUE, dn |-> Num(1), ds |-> Num(1), omega |-> Num(1)] }

\* No CODEML process was started for the pair
NoProcess == [exit |-> "none", state |-> "none"]

\* A CODEML process that ran into the timeout is left running
ProcessLeftRunning(tool) ==
    [exit |-> tool.exit, state |-> IF tool.exit = "timeout" THEN "running" ELSE "exited"]

\* run_codeml: communicate() returns when the process has exited; on
\* TimeoutExpired the process is killed
ProcessAfter(tool) ==
    [exit |-> tool.exit, state |-> IF tool.exit = "timeout" THEN "killed" ELSE "exited"]

\* run_codeml: True only when the process ended with return code 0
run_codeml(tool) == tool.exit = "ok"

\* A plausible slip: the identity test inverted
SequencesDiffer(s1, s2) == s1 # s2

\* process_pair: sequences[seq1_name] == sequences[seq2_name]
SequencesIdentical(s1, s2) == s1 = s2

\* The 8-tuple process_pair returns (the CDS id is the same for a whole run).
\* A dN or dS of None is stored as NaN, as the DataFrame holds it.
ResultTuple(pair, grp, dn, ds, omega) ==
    [Seq1 |-> Strip(pair[1]), Seq2 |-> Strip(pair[2]),
     Group1 |-> grp, Group2 |-> grp, dN |-> dn, dS |-> ds, omega |-> omega]

\* process_pair: what it returns ("None" for a cross-group pair) and whether
\* it went on to create a working directory and run CODEML
process_pair(pair, seqs, groups, tool) ==
    LET group1 == groups[pair[1]]
        group2 == groups[pair[2]]
    IN  IF group1 # group2
        THEN [returned |-> FALSE, ran |-> FALSE,
              result |-> ResultTuple(pair, group1, NaN, NaN, NaN)]
        ELSE IF SequencesIdentical(DictGet(seqs, pair[1]), DictGet(seqs, pair[2]))
        THEN [returned |-> TRUE, ran |-> FALSE,
              result |-> ResultTuple(pair, group1, Num(0), Num(0), Num(-1))]
        ELSE IF run_codeml(tool)
        THEN [returned |-> TRUE, ran |-> TRUE,
              result |-> ResultTuple(pair, group1, tool.dn, tool.ds,
                                     IF tool.parsed THEN tool.omega ELSE NaN)]
        ELSE [returned |-> TRUE, ran |-> TRUE,
              result |-> ResultTuple(pair, group1, NaN, NaN, NaN)]

----------------------------------------------------------------------------
\* src/dnds.py : per-haplotype statistics

\* df[(df['Seq1'] == sample) | (df['Seq2'] == sample)]
RECURSIVE SampleRows(_, _)
SampleRows(df, sample) ==
    IF df = <<>> THEN <<>>
    ELSE (IF Head(df).Seq1 = sample \/ Head(df).Seq2 = sample
          THEN <<Head(df)>> ELSE <<>>) \o SampleRows(Tail(df), sample)

\* omega_values[~omega_values.isin([-1, 99])]: NaN is not in the list and stays
RECURSIVE OmegaValues(_)
OmegaValues(rows) ==
    IF rows = <<>> THEN <<>>
    ELSE (IF Head(rows).omega \in {Num(-1), Num(99)}
          THEN <<>> ELSE <<Head(rows).omega>>) \o OmegaValues(Tail(rows))

\* One row of the haplotype table.  Mean_dNdS and Median_dNdS are the mean and
\* median of omega_values (NaN skipped); the row keeps the values themselves.
HaplotypeRow(df, sample, groups) ==
    LET omega_values == OmegaValues(SampleRows(df, sample))
    IN  [Haplotype |-> sample, Group |-> groups[sample],
         omega_values |-> omega_values, Num_Comparisons |-> Len(omega_values)]

RECURSIVE HaplotypeStats(_, _, _)
HaplotypeStats(df, names, groups) ==
    IF names = <<>> THEN <<>>
    ELSE <<HaplotypeRow(df, Head(names), groups)>>
         \o HaplotypeStats(df, Tail(names), groups)

----------------------------------------------------------------------------
\* src/dnds.py : process_phy_file as a state machine

SeqATG == <<"A", "T", "G">>
SeqATC == <<"A", "T", "C">>
SeqBad == <<"A", "T">>

\* The sequence lines a modelled .phy file is made of
PhyLines ==
    {[name |-> FN_A0, seq |-> SeqATG], [name |-> FN_A0, seq |-> SeqATC],
     [name |-> FN_B0, seq |-> SeqATC],
     [name |-> FN_D1, seq |-> SeqATG], [name |-> FN_Q, seq |-> SeqATG],
     [name |-> FN_A0, seq |-> SeqBad]}

RECURSIVE SeqsUpTo(_, _)
SeqsUpTo(S, n) ==
    IF n = 0 THEN {<<>>}
    ELSE LET shorter == SeqsUpTo(S, n - 1)
         IN  shorter \cup {Append(s, x) : s \in {t \in shorter : Len(t) = n - 1}, x \in S}

InitDnds(files) ==
    /\ phy \in files
    /\ group \in {None, "1"}
    /\ pc = "start"
    /\ sequences = <<>>
    /\ sample_groups = <<>>
    /\ pairs = <<>>
    /\ pending = {}
    /\ results = <<>>
    /\ completed = 0
    /\ working_dirs = {}
    /\ codeml_calls = <<>>
    /\ codeml_procs = <<>>
    /\ output_csv = <<>>
    /\ haplotype_csv = <<>>
    /\ ret = "running"

\* process_phy_file up to the start of the pool: parse, assign groups,
\* generate the pairs; return None when there is nothing to do
ParseAndGenerate ==
    /\ pc = "start"
    /\ LET seqs   == parse_phy_file(phy, <<>>)
           names  == Keys(seqs)
           groups == AssignGroups(names, group)
           prs    == GeneratePairs(names, groups)
       IN  /\ sequences' = seqs
           /\ IF seqs = <<>>
              THEN /\ pc' = "done" /\ ret' = None
                   /\ UNCHANGED <<sample_groups, pairs, pending, codeml_calls,
                                  codeml_procs>>
              ELSE /\ sample_groups' = groups
                   /\ pairs' = prs
                   /\ IF Len(prs) = 0
                      THEN /\ pc' = "done" /\ ret' = None
                           /\ UNCHANGED <<pending, codeml_calls, codeml_procs>>
                      ELSE /\ pc' = "pool" /\ ret' = ret
                           /\ pending' = DOMAIN prs
                           /\ codeml_calls' = [i \in DOMAIN prs |-> 0]
                           /\ codeml_procs' = [i \in DOMAIN prs |-> NoProcess]
    /\ UNCHANGED <<phy, group, results, completed, working_dirs, output_csv,
                   haplotype_csv, not_dnds>>

\* One pair of pool.imap_unordered: a worker runs process_pair on any pair
\* still outstanding and the loop collects what it returned
ProcessPair(i, tool) ==
    /\ pc = "pool"
    /\ i \in pending
    /\ LET r == process_pair(pairs[i], sequences, sample_groups, tool)
       IN  /\ results' = IF r.returned /\ r.result.Group1 = r.result.Group2
                         THEN Append(results, r.result) ELSE results
           /\ working_dirs' = IF r.ran THEN working_dirs \cup {i} ELSE working_dirs
           /\ codeml_calls' = IF r.ran
                              THEN [codeml_calls EXCEPT ![i] = @ + 1]
                              ELSE codeml_calls
           /\ codeml_procs' = IF r.ran
                              THEN [codeml_procs EXCEPT ![i] = ProcessAfter(tool)]
                              ELSE codeml_procs
    /\ completed' = completed + 1
    /\ pending' = pending \ {i}
    /\ UNCHANGED <<phy, group, pc, sequences, sample_groups, pairs, output_csv,
                   haplotype_csv, ret, not_dnds>>

\* The loop over pool.imap_unordered ends at once, whatever is outstanding
PoolNeverWaits(outstanding) == TRUE

\* The loop over pool.imap_unordered ends when every pair has yielded its result
PoolDrained(outstanding) == outstanding = {}

\* After the pool: remove temp_dir, write the pairwise table, compute and
\* write the haplotype table
Aggregate ==
    /\ pc = "pool"
    /\ PoolDrained(pending)
    /\ working_dirs' = {}
    /\ IF \E k \in DOMAIN results : results[k].Group1 # results[k].Group2
       THEN /\ ret' = None
            /\ UNCHANGED <<output_csv, haplotype_csv>>
       ELSE /\ output_csv' = results
            /\ haplotype_csv' = HaplotypeStats(results, Keys(sequences), sample_groups)
            /\ ret' = "haplotype_output_csv"
    /\ pc' = "done"
    /\ UNCHANGED <<phy, group, sequences, sample_groups, pairs, pending, results,
                   completed, codeml_calls, codeml_procs, not_dnds>>

NextDnds ==
    \/ ParseAndGenerate
    \/ \E i \in DOMAIN pairs, tool \in ToolOutcomes : ProcessPair(i, tool)
    \/ Aggregate

Init ==
    InitDnds(SeqsUpTo(PhyLines, MaxLines)) /\ ClusterIdle /\ MatrixIdle /\ CombineIdle
    /\ LaterIdle

Next == NextDnds

Spec == Init /\ [][Next]_vars

----------------------------------------------------------------------------
\* Pair generation alone, on files of up to MaxSamples distinct samples

PairNames == {FN_A0, FN_B0, FN_C0, FN_D1, FN_E1, FN_F1, FN_Q}

\* The sequences without repetition of at most n elements of S
RECURSIVE InjSeqsUpTo(_, _)
InjSeqsUpTo(S, n) ==
    IF n = 0 THEN {<<>>}
    ELSE LET shorter == InjSeqsUpTo(S, n - 1)
         IN  shorter \cup
             UNION {{Append(s, x) : x \in S \ {s[k] : k \in DOMAIN s}} :
                        s \in {t \in shorter : Len(t) = n - 1}}

PairFiles == InjSeqsUpTo([name : PairNames, seq : {SeqATG}], MaxSamples)

InitPairs ==
    InitDnds(PairFiles) /\ ClusterIdle /\ MatrixIdle /\ CombineIdle /\ LaterIdle

SpecPairs == InitPairs /\ [][ParseAndGenerate]_vars

----------------------------------------------------------------------------
\* Claims about src/dnds.py

\* The cohort a sample name carries: its last character before the padding
CohortOf(name) == Strip(name)[Len(Strip(name))]

Choose2(n) == (n * (n - 1)) \div 2

PairIsIdentical(i) ==
    DictGet(sequences, pairs[i][1]) = DictGet(sequences, pairs[i][2])

SentinelOf(i) ==
    [Seq1 |-> Strip(pairs[i][1]), Seq2 |-> Strip(pairs[i][2]),
     Group1 |-> CohortOf(pairs[i][1]), Group2 |-> CohortOf(pairs[i][1]),
     dN |-> Num(0), dS |-> Num(0), omega |-> Num(-1)]

CohortSize(g) ==
    Cardinality({k \in DOMAIN sequences : CohortOf(sequences[k].name) = g})

\* C2: within-cohort generation yields exactly C(n0,2)+C(n1,2) distinct
\* unordered pairs, and no generated pair joins samples of different cohorts.
C2_WithinCohortPairs ==
    pc # "start" =>
        /\ Len(pairs) = Choose2(CohortSize("0")) + Choose2(CohortSize("1"))
        /\ \A i \in DOMAIN pairs :
              /\ pairs[i][1] # pairs[i][2]
              /\ CohortOf(pairs[i][1]) = CohortOf(pairs[i][2])
        /\ \A i, j \in DOMAIN pairs :
              i # j => {pairs[i][1], pairs[i][2]} # {pairs[j][1], pairs[j][2]}

\* C2 witness: 3 cohort-0 and 3 cohort-1 samples give 6 pairs
C2_Witness ==
    /\ pc = "pool"
    /\ CohortSize("0") = 3
    /\ CohortSize("1") = 3
    /\ Len(pairs) = 6

RegionWritten == pc = "done" /\ ret = "haplotype_output_csv"

\* C3: the comparisons selected for a sample's summary row are exactly the
\* stored results the sample took part in: a sample of k generated (and
\* stored) pairs has k results selected.
C3_SelectionMatchesResults ==
    RegionWritten =>
        \A h \in DOMAIN haplotype_csv :
            LET sample == haplotype_csv[h].Haplotype
            IN  Len(SampleRows(output_csv, sample)) =
                    Cardinality({i \in DOMAIN pairs :
                                    sample \in {pairs[i][1], pairs[i][2]}})

RowsTouching(sample) ==
    {k \in DOMAIN output_csv :
        Strip(sample) \in {output_csv[k].Seq1, output_csv[k].Seq2}}

\* C4: a sample's valid-comparison count is the number of its comparisons
\* whose omega is none of -1, 99 and NaN.
C4_ValidCount ==
    RegionWritten =>
        \A h \in DOMAIN haplotype_csv :
            haplotype_csv[h].Num_Comparisons =
                Cardinality({k \in RowsTouching(haplotype_csv[h].Haplotype) :
                                output_csv[k].omega \notin {Num(-1), Num(99), NaN}})

\* C18: in every order of pair completions, the pairwise table and the
\* per-sample statistics of a region exist only when every generated pair has
\* yielded its result or its failure
C18_RegionBarrier ==
    (ret = "haplotype_output_csv" \/ output_csv # <<>> \/ haplotype_csv # <<>>) =>
        /\ pending = {}
        /\ completed = Len(pairs)

\* A written region of at least two pairs, one of which failed in CODEML
C18_Witness ==
    /\ ret = "haplotype_output_csv"
    /\ Len(pairs) >= 2
    /\ Len(output_csv) = Len(pairs)
    /\ \E i \in DOMAIN codeml_procs : codeml_procs[i].exit = "nonzero"

\* The row process_pair returns for pair i when CODEML failed
FailedRow(i) == ResultTuple(pairs[i], sample_groups[pairs[i][1]], NaN, NaN, NaN)

ToolFailed(i) == codeml_procs[i].exit \in {"nonzero", "timeout"}

\* C19: a pair whose CODEML process exited nonzero or ran into the timeout has
\* no process left running, is recorded with dN, dS and omega NaN, was given to
\* CODEML exactly once, and does not keep the other pairs of the region from
\* being processed
C19_FailedPairRecorded ==
    \A i \in DOMAIN codeml_procs :
        ToolFailed(i) =>
            /\ codeml_procs[i].state \in {"exited", "killed"}
            /\ \E k \in DOMAIN results : results[k] = FailedRow(i)
            /\ codeml_calls[i] = 1
            /\ i \notin pending
            /\ pc = "done" => \A j \in DOMAIN pairs :
                                  /\ j \notin pending
                                  /\ codeml_procs[j] # NoProcess => codeml_calls[j] = 1

\* A finished region in which one pair timed out and another one succeeded
C19_Witness ==
    /\ pc = "done"
    /\ \E i, j \in DOMAIN codeml_procs :
          /\ codeml_procs[i] = ProcessAfter([exit |-> "timeout"])
          /\ codeml_procs[j].exit = "ok"
          /\ results[Len(results)] = FailedRow(i)


----------------------------------------------------------------------------
\* src/pairwise_matrix_test.py : strings

\* The characters of the modelled identifiers, in code-point order
CharOrder ==
    <<" ", "-", ".", "/", "0", "1", "2", "3", "4", "5", "6", "7", "8", "9",
      ":", "_", "a", "b", "d", "e", "n", "r", "s", "t", "x">>

CodePoint(ch) == CHOOSE i \in DOMAIN CharOrder : CharOrder[i] = ch

\* a < b on Python strings
RECURSIVE StrLess(_, _)
StrLess(a, b) ==
    IF b = <<>> THEN FALSE
    ELSE IF a = <<>> THEN TRUE
    ELSE IF Head(a) = Head(b) THEN StrLess(Tail(a), Tail(b))
    ELSE CodePoint(Head(a)) < CodePoint(Head(b))

\* sub in s, for a one-character sub
Contains(s, ch) == \E i \in DOMAIN s : s[i] = ch

\* s.startswith(prefix)
StartsWith(s, prefix) ==
    Len(s) >= Len(prefix) /\ SubSeq(s, 1, Len(prefix)) = prefix

Drop(s, n) == SubSeq(s, n + 1, Len(s))

\* s.split(sep)
RECURSIVE SplitAcc(_, _, _, _)
SplitAcc(s, sep, cur, acc) ==
    IF s = <<>> THEN Append(acc, cur)
    ELSE IF StartsWith(s, sep)
    THEN SplitAcc(Drop(s, Len(sep)), sep, <<>>, Append(acc, cur))
    ELSE SplitAcc(Tail(s), sep, Append(cur, Head(s)), acc)

Split(s, sep) == SplitAcc(s, sep, <<>>, <<>>)

\* s.replace(old, new)
RECURSIVE Replace(_, _, _)
Replace(s, old, new) ==
    IF s = <<>> THEN <<>>
    ELSE IF StartsWith(s, old) THEN new \o Replace(Drop(s, Len(old)), old, new)
    ELSE <<Head(s)>> \o Replace(Tail(s), old, new)

DigitChars == <<"0", "1", "2", "3", "4", "5", "6", "7", "8", "9">>

DigitValue(ch) == (CHOOSE i \in DOMAIN DigitChars : DigitChars[i] = ch) - 1

IsDigit(ch) == \E i \in DOMAIN DigitChars : DigitChars[i] = ch

RECURSIVE DigitsValue(_, _)
DigitsValue(s, acc) ==
    IF s = <<>> THEN acc ELSE DigitsValue(Tail(s), 10 * acc + DigitValue(Head(s)))

\* int(s): surrounding blanks and one sign are accepted, then digits only;
\* ok = FALSE stands for the ValueError
ParseInt(s) ==
    LET t      == Strip(s)
        signed == t # <<>> /\ Head(t) \in {"-", "+"}
        digits == IF signed THEN Tail(t) ELSE t
    IN  IF digits # <<>> /\ \A i \in DOMAIN digits : IsDigit(digits[i])
        THEN [ok |-> TRUE,
              v |-> IF signed /\ Head(t) = "-" THEN 0 - DigitsValue(digits, 0)
                    ELSE DigitsValue(digits, 0)]
        ELSE [ok |-> FALSE, v |-> 0]

\* str(n) for n >= 0
RECURSIVE Dec(_)
Dec(n) == IF n < 10 THEN <<DigitChars[n + 1]>>
          ELSE Dec(n \div 10) \o <<DigitChars[(n % 10) + 1]>>

START == <<"s", "t", "a", "r", "t">>
END == <<"e", "n", "d">>

----------------------------------------------------------------------------
\* src/pairwise_matrix_test.py : parse_cds_coordinates

\* return None, None, None
ParseFailed == [ok |-> FALSE, chrom |-> <<>>, start |-> 0, end |-> 0]

Parsed(chrom, start, end) ==
    [ok |-> TRUE, chrom |-> chrom, start |-> start, end |-> end]

\* parse_cds_coordinates: (chrom, start, end), or the failure that both the
\* fall-through and the except clause return
parse_cds_coordinates(cds_name) ==
    LET name == IF Contains(cds_name, "/")
                THEN LET p == Split(cds_name, <<"/">>) IN p[Len(p)]
                ELSE cds_name
    IN  IF Contains(name, "_")
        THEN LET parts == Split(name, <<"_">>)
             IN  IF Len(parts) = 3 /\ StartsWith(parts[2], START)
                                   /\ StartsWith(parts[3], END)
                 THEN LET start == ParseInt(Replace(parts[2], START, <<>>))
                          end   == ParseInt(Replace(parts[3], END, <<>>))
                      IN  IF start.ok /\ end.ok
                          THEN Parsed(parts[1], start.v, end.v)
                          ELSE ParseFailed
                 ELSE ParseFailed
        ELSE IF Contains(name, ":")
        THEN LET halves == Split(name, <<":">>)
             IN  IF Len(halves) # 2 THEN ParseFailed
                 ELSE LET nums == Split(Replace(halves[2], <<"-">>, <<".", ".">>),
                                        <<".", ".">>)
                      IN  IF Len(nums) = 2 /\ ParseInt(nums[1]).ok
                                           /\ ParseInt(nums[2]).ok
                          THEN Parsed(halves[1], ParseInt(nums[1]).v,
                                      ParseInt(nums[2]).v)
                          ELSE ParseFailed
        ELSE ParseFailed

----------------------------------------------------------------------------
\* src/pairwise_matrix_test.py : build_overlap_clusters

\* The (chrom, start, end, cds) of every identifier that parses, in row order
RECURSIVE ParseAll(_)
ParseAll(ids) ==
    IF ids = <<>> THEN <<>>
    ELSE LET c == parse_cds_coordinates(Head(ids))
         IN  (IF c.ok
              THEN <<[chrom |-> c.chrom, start |-> c.start, end |-> c.end,
                      cds |-> Head(ids)]>>
              ELSE <<>>) \o ParseAll(Tail(ids))

\* x < y on the tuples (chrom, start, end, cds)
TupleLess(x, y) ==
    \/ StrLess(x.chrom, y.chrom)
    \/ /\ x.chrom = y.chrom
       /\ \/ x.start < y.start
          \/ /\ x.start = y.start
             /\ \/ x.end < y.end
                \/ x.end = y.end /\ StrLess(x.cds, y.cds)

RECURSIVE InsertSorted(_, _)
InsertSorted(x, l) ==
    IF l = <<>> THEN <<x>>
    ELSE IF TupleLess(x, Head(l)) THEN <<x>> \o l
    ELSE <<Head(l)>> \o InsertSorted(x, Tail(l))

\* cds_coords.sort()
RECURSIVE Sort(_)
Sort(l) == IF l = <<>> THEN <<>> ELSE InsertSorted(Head(l), Sort(Tail(l)))

\* A plausible slip: an entry ending exactly at the start is not an overlap
OverlapsActiveStrict(entry, chrom, start) == entry.c = chrom /\ entry.e > start

\* c == chrom and e >= start
OverlapsActive(entry, chrom, start) == entry.c = chrom /\ entry.e >= start


\* c != chrom or e >= start
StaysActive(entry, chrom, start) == entry.c # chrom \/ entry.e >= start

RECURSIVE Prune(_, _, _)
Prune(active, chrom, start) ==
    IF active = <<>> THEN <<>>
    ELSE (IF StaysActive(Head(active), chrom, start) THEN <<Head(active)>> ELSE <<>>)
         \o Prune(Tail(active), chrom, start)

OverlappingClusters(active, chrom, start) ==
    {active[k].cid : k \in {j \in DOMAIN active :
                               OverlapsActive(active[j], chrom, start)}}

Min(S) == CHOOSE x \in S : \A y \in S : x <= y

\* A plausible slip: the id counter is not advanced after a new cluster
SameClusterId(cid) == cid

\* cluster_id += 1
NextClusterId(cid) == cid + 1

\* d[k] = v on a dict
Put(d, k, v) == [x \in DOMAIN d \cup {k} |-> IF x = k THEN v ELSE d[x]]

\* The regions build_overlap_clusters is run on
Fmt1(chrom, start, end) ==
    chrom \o <<"_">> \o START \o Dec(start) \o <<"_">> \o END \o Dec(end)

Fmt2(chrom, start, end) == chrom \o <<":">> \o Dec(start) \o <<"-">> \o Dec(end)

ChrA == <<"a">>
ChrB == <<"b">>
ChrAB == <<"a", "_", "b">>

CdsNames ==
    { Fmt1(ChrA, 2, 4), Fmt1(ChrA, 3, 6), Fmt1(ChrA, 10, 12), Fmt1(ChrA, 11, 13),
      Fmt2(ChrA, 4, 10), Fmt1(ChrA, 7, 7), Fmt1(ChrB, 3, 6),
      Fmt1(ChrA, 12, 3),
      Fmt1(ChrAB, 2, 4),
      ChrA \o <<"_">> \o START \o <<"5">> }

InitCluster ==
    /\ DndsIdle /\ MatrixIdle /\ CombineIdle /\ LaterIdle
    /\ cds_list \in InjSeqsUpTo(CdsNames, MaxRegions)
    /\ cl_pc = "start"
    /\ cds_coords = <<>>
    /\ sweep_i = 0
    /\ active_regions = <<>>
    /\ clusters = <<>>
    /\ cluster_id = 0
    /\ cds_to_cluster = <<>>

\* build_overlap_clusters up to the sweep: parse every identifier, sort
ParseAndSort ==
    /\ cl_pc = "start"
    /\ cds_coords' = Sort(ParseAll(cds_list))
    /\ sweep_i' = 1
    /\ cl_pc' = "sweep"
    /\ UNCHANGED <<cds_list, active_regions, clusters, cluster_id, cds_to_cluster,
                   not_cluster>>

\* One iteration of the sweep over cds_coords
SweepStep ==
    /\ cl_pc = "sweep"
    /\ sweep_i <= Len(cds_coords)
    /\ LET r           == cds_coords[sweep_i]
           active      == Prune(active_regions, r.chrom, r.start)
           overlapping == OverlappingClusters(active, r.chrom, r.start)
       IN  IF overlapping = {}
           THEN /\ clusters' = Put(clusters, cluster_id, {r.cds})
                /\ cds_to_cluster' = Put(cds_to_cluster, r.cds, cluster_id)
                /\ active_regions' =
                       Append(active, [c |-> r.chrom, e |-> r.end, cid |-> cluster_id])
                /\ cluster_id' = NextClusterId(cluster_id)
           ELSE LET target_cluster == Min(overlapping)
                    merged == clusters[target_cluster] \cup {r.cds} \cup
                              UNION {clusters[cid] : cid \in overlapping}
                IN  /\ clusters' =
                           [cid \in DOMAIN clusters \ (overlapping \ {target_cluster})
                               |-> IF cid = target_cluster THEN merged
                                   ELSE clusters[cid]]
                    /\ cds_to_cluster' = Put(cds_to_cluster, r.cds, target_cluster)
                    /\ active_regions' =
                           Append([k \in DOMAIN active |->
                                      IF active[k].cid \in overlapping
                                      THEN [active[k] EXCEPT !.cid = target_cluster]
                                      ELSE active[k]],
                                  [c |-> r.chrom, e |-> r.end, cid |-> target_cluster])
                    /\ cluster_id' = cluster_id
    /\ sweep_i' = sweep_i + 1
    /\ UNCHANGED <<cds_list, cl_pc, cds_coords, not_cluster>>

\* return clusters
SweepDone ==
    /\ cl_pc = "sweep"
    /\ sweep_i > Len(cds_coords)
    /\ cl_pc' = "done"
    /\ UNCHANGED <<cds_list, cds_coords, sweep_i, active_regions, clusters,
                   cluster_id, cds_to_cluster, not_cluster>>

NextCluster == ParseAndSort \/ SweepStep \/ SweepDone

SpecCluster == InitCluster /\ [][NextCluster]_vars

----------------------------------------------------------------------------
\* Claims about build_overlap_clusters

Range(l) == {l[k] : k \in DOMAIN l}

\* The identifiers of the input whose coordinates parse
ParseableIds == {id \in Range(cds_list) : parse_cds_coordinates(id).ok}

Clustered(id) == \E cid \in DOMAIN clusters : id \in clusters[cid]

\* C5: the clusters returned are a partition of the parseable regions: every
\* parseable region is in exactly one cluster, no cluster is empty and no
\* unparseable region is in any cluster.
C5_Partition ==
    cl_pc = "done" =>
        /\ \A id \in ParseableIds :
              Cardinality({cid \in DOMAIN clusters : id \in clusters[cid]}) = 1
        /\ \A cid \in DOMAIN clusters :
              clusters[cid] # {} /\ clusters[cid] \subseteq ParseableIds

\* C5 witness: an input with an unparseable identifier and several clusters,
\* one of them of several regions
C5_Witness ==
    /\ cl_pc = "done"
    /\ ParseableIds # Range(cds_list)
    /\ Cardinality(DOMAIN clusters) >= 2
    /\ \E cid \in DOMAIN clusters : Cardinality(clusters[cid]) >= 2

Max2(a, b) == IF a >= b THEN a ELSE b
Min2(a, b) == IF a <= b THEN a ELSE b

\* The regions the sweep runs over: (chrom, start, end, cds) as parsed
Regions == Range(cds_coords)

\* Two regions overlap: same chromosome and the closed intervals
\* [start, end] have a position in common
Intersects(r1, r2) ==
    /\ r1.chrom = r2.chrom
    /\ Max2(r1.start, r2.start) <= Min2(r1.end, r2.end)

\* The regions of R linked to those of S by a chain of overlaps inside R
RECURSIVE Component(_, _)
Component(R, S) ==
    LET more == S \cup {x \in R : \E y \in S : Intersects(x, y)}
    IN  IF more = S THEN S ELSE Component(R, more)

WellFormedInput == \A r \in Regions : r.start <= r.end

\* C6: when every region has start <= end, two regions of different clusters
\* are not linked by any chain of overlapping regions (in particular they do
\* not overlap each other).
C6_Separated ==
    (cl_pc = "done" /\ WellFormedInput) =>
        \A c1, c2 \in DOMAIN clusters :
            c1 # c2 =>
                \A x \in Regions :
                    x.cds \in clusters[c1] =>
                        \A y \in Component(Regions, {x}) : y.cds \notin clusters[c2]

\* C6 witness: two clusters on one chromosome, one of them held together by
\* two intervals that only touch ([2,4] and [4,10])
C6_Witness ==
    /\ cl_pc = "done"
    /\ WellFormedInput
    /\ \E c1, c2 \in DOMAIN clusters :
          /\ c1 # c2
          /\ {Fmt1(ChrA, 2, 4), Fmt2(ChrA, 4, 10)} \subseteq clusters[c1]
          /\ Fmt1(ChrA, 11, 13) \in clusters[c2]

ClustersConnected ==
    \A cid \in DOMAIN clusters :
        LET members == {r \in Regions : r.cds \in clusters[cid]}
        IN  \A x, y \in members :
                x.chrom = y.chrom /\ y \in Component(members, {x})

\* C7: every returned cluster is connected (same chromosome, and any two of
\* its regions linked by a chain of overlapping regions of the cluster), for
\* every input.
C7_Connected == cl_pc = "done" => ClustersConnected

\* The clusters are connected when every region of the input has
\* start <= end
ConnectedOnWellFormedInput ==
    (cl_pc = "done" /\ WellFormedInput) => ClustersConnected

\* The regions [100,200], [150,300], [500,600], [550,650] of one
\* chromosome (coordinates in units of 50) give exactly the two clusters
\* {[100,200], [150,300]} and {[500,600], [550,650]}
TwoClustersExample ==
    /\ cl_pc = "done"
    /\ Range(cds_list) = {Fmt1(ChrA, 2, 4), Fmt1(ChrA, 3, 6),
                          Fmt1(ChrA, 10, 12), Fmt1(ChrA, 11, 13)}
    /\ {clusters[cid] : cid \in DOMAIN clusters} =
           {{Fmt1(ChrA, 2, 4), Fmt1(ChrA, 3, 6)},
            {Fmt1(ChrA, 10, 12), Fmt1(ChrA, 11, 13)}}

AllDigits(s) == s # <<>> /\ \A i \in DOMAIN s : IsDigit(s[i])

\* The readings of an identifier as chrom_startN_endN
AsFormat1(id) ==
    {[chrom |-> SubSeq(id, 1, i - 1),
      start |-> DigitsValue(SubSeq(id, i + 6, j - 1), 0),
      end   |-> DigitsValue(SubSeq(id, j + 4, Len(id)), 0)] :
        <<i, j>> \in {p \in (DOMAIN id) \X (DOMAIN id) :
            /\ 1 < p[1] /\ p[1] + 6 < p[2] /\ p[2] + 4 <= Len(id)
            /\ SubSeq(id, p[1], p[1] + 5) = <<"_">> \o START
            /\ AllDigits(SubSeq(id, p[1] + 6, p[2] - 1))
            /\ SubSeq(id, p[2], p[2] + 3) = <<"_">> \o END
            /\ AllDigits(SubSeq(id, p[2] + 4, Len(id)))}}

\* The readings of an identifier as chrom:start-end
AsFormat2(id) ==
    {[chrom |-> SubSeq(id, 1, i - 1),
      start |-> DigitsValue(SubSeq(id, i + 1, j - 1), 0),
      end   |-> DigitsValue(SubSeq(id, j + 1, Len(id)), 0)] :
        <<i, j>> \in {p \in (DOMAIN id) \X (DOMAIN id) :
            /\ 1 < p[1] /\ p[1] + 1 < p[2] /\ p[2] < Len(id)
            /\ id[p[1]] = ":" /\ id[p[2]] = "-"
            /\ AllDigits(SubSeq(id, p[1] + 1, p[2] - 1))
            /\ AllDigits(SubSeq(id, p[2] + 1, Len(id)))}}

\* C8: an identifier is clustered if and only if it has one of the forms
\* chrom_startN_endN and chrom:start-end, for any chromosome name, and it is
\* then parsed to that (chrom, start, end); every other identifier is dropped.
C8_DroppedIffMalformed ==
    cl_pc = "done" =>
        \A id \in Range(cds_list) :
            LET readings == AsFormat1(id) \cup AsFormat2(id)
            IN  /\ Clustered(id) <=> readings # {}
                /\ readings # {} =>
                      \E k \in DOMAIN cds_coords :
                          /\ cds_coords[k].cds = id
                          /\ [chrom |-> cds_coords[k].chrom,
                              start |-> cds_coords[k].start,
                              end   |-> cds_coords[k].end] \in readings

----------------------------------------------------------------------------
\* src/pairwise_matrix_test.py : get_pairwise_value, create_matrices

\* What get_pairwise_value returns: the value, None, or the IndexError of
\* its debug print on an empty dict
Found(v) == [raised |-> FALSE, none |-> FALSE, val |-> v]
NotFound == [raised |-> FALSE, none |-> TRUE, val |-> NaN]
LookupRaised == [raised |-> TRUE, none |-> TRUE, val |-> NaN]

get_pairwise_value(seq1, seq2, d) ==
    LET key == IF <<seq1, seq2>> \in DOMAIN d THEN <<seq1, seq2>> ELSE <<seq2, seq1>>
    IN  IF key \in DOMAIN d THEN Found(d[key])
        ELSE IF DOMAIN d = {} THEN LookupRaised
        ELSE NotFound

\* np.full((n, n), np.nan)
FullNaN(n) == [x \in (1..n) \X (1..n) |-> NaN]

\* The loops "for i in range(n): for j in range(i + 1, n)" over one group
RECURSIVE FillMatrix(_, _, _, _)
FillMatrix(m, index_pairs, seqs, d) ==
    IF index_pairs = <<>> THEN m
    ELSE LET i   == Head(index_pairs)[1]
             j   == Head(index_pairs)[2]
             val == get_pairwise_value(seqs[i], seqs[j], d)
         IN  FillMatrix(IF val.none THEN m
                        ELSE [m EXCEPT ![<<i, j>>] = val.val, ![<<j, i>>] = val.val],
                        Tail(index_pairs), seqs, d)

IndexPairs(n) == combinations([k \in 1..n |-> k])

FillRaises(seqs, d) ==
    \E k \in DOMAIN IndexPairs(Len(seqs)) :
        get_pairwise_value(seqs[IndexPairs(Len(seqs))[k][1]],
                           seqs[IndexPairs(Len(seqs))[k][2]], d).raised

\* create_matrices: (None, None), the two matrices, or the exception
create_matrices(s0, s1, d) ==
    IF Len(s0) = 0 \/ Len(s1) = 0
    THEN [raised |-> FALSE, none |-> TRUE, matrix_0 |-> <<>>, matrix_1 |-> <<>>]
    ELSE IF FillRaises(s0, d) \/ FillRaises(s1, d)
    THEN [raised |-> TRUE, none |-> TRUE, matrix_0 |-> <<>>, matrix_1 |-> <<>>]
    ELSE [raised |-> FALSE, none |-> FALSE,
          matrix_0 |-> FillMatrix(FullNaN(Len(s0)), IndexPairs(Len(s0)), s0, d),
          matrix_1 |-> FillMatrix(FullNaN(Len(s1)), IndexPairs(Len(s1)), s1, d)]

Group0Ids == {"s1_0", "s2_0"}
Group1Ids == {"s3_1", "s4_1"}
SeqIds == Group0Ids \cup Group1Ids

PairKeys == {k \in SeqIds \X SeqIds : k[1] # k[2]}

SubsetsUpTo(S, n) == {T \in SUBSET S : Cardinality(T) <= n}

\* The dicts of at most MaxEntries comparisons
PairwiseDicts ==
    UNION {[D -> {Num(1), Num(2)}] : D \in SubsetsUpTo(PairKeys, MaxEntries)}

InitMatrix ==
    /\ DndsIdle /\ ClusterIdle /\ CombineIdle /\ LaterIdle
    /\ pairwise_dict \in PairwiseDicts
    /\ sequences_0 \in {<<>>, <<"s1_0", "s2_0">>, <<"s2_0", "s1_0">>}
    /\ sequences_1 \in {<<>>, <<"s3_1", "s4_1">>}
    /\ mx_pc = "start"
    /\ matrices = <<>>

CreateMatrices ==
    /\ mx_pc = "start"
    /\ matrices' = create_matrices(sequences_0, sequences_1, pairwise_dict)
    /\ mx_pc' = "done"
    /\ UNCHANGED <<pairwise_dict, sequences_0, sequences_1, not_matrix>>

SpecMatrix == InitMatrix /\ [][CreateMatrices]_vars

\* C10: lookup is order-insensitive: for every dict and every two samples A
\* and B, get_pairwise_value(A, B, d) equals get_pairwise_value(B, A, d); and
\* the matrices create_matrices builds are symmetric.
C10_OrderInsensitive ==
    mx_pc = "done" =>
        /\ \A a, b \in SeqIds :
              get_pairwise_value(a, b, pairwise_dict)
                  = get_pairwise_value(b, a, pairwise_dict)
        /\ ~matrices.none =>
              /\ \A x \in DOMAIN matrices.matrix_0 :
                    matrices.matrix_0[x] = matrices.matrix_0[<<x[2], x[1]>>]
              /\ \A x \in DOMAIN matrices.matrix_1 :
                    matrices.matrix_1[x] = matrices.matrix_1[<<x[2], x[1]>>]

----------------------------------------------------------------------------
\* src/pairwise_matrix_test.py : combine_cluster_evidence

\* A quotient the code computes in floating point, kept exact
Frac(n, d) == [nan |-> FALSE, num |-> n, den |-> d]
FracNaN == [nan |-> TRUE, num |-> 0, den |-> 1]

RECURSIVE SumOver(_, _)
SumOver(S, f) ==
    IF S = {} THEN 0
    ELSE LET x == CHOOSE y \in S : TRUE IN f[x] + SumOver(S \ {x}, f)

\* weights[cds] = end - start for the members whose coordinates parse
Lengths(cdss) ==
    [c \in {x \in cdss : parse_cds_coordinates(x).ok} |->
        parse_cds_coordinates(c).end - parse_cds_coordinates(c).start]

\* results_df[results_df['CDS'].isin(cluster_cdss)]
ClusterData(cdss, df) == SelectSeq(df, LAMBDA row : row.CDS \in cdss)

\* The rows the loop does not skip
ValidRows(data) == SelectSeq(data, LAMBDA row : ~row.observed_effect_size.nan)

\* The loop's cluster_pairs.update(results[cds]['pairwise_comparisons'])
UnionOfPairs(rows, res) ==
    UNION {res[rows[k].CDS].pairwise_comparisons : k \in DOMAIN rows}

\* The numerator of weight (over the common denominator total * n)
WeightNum(cds, lengths, total, n) ==
    IF cds \in DOMAIN lengths THEN lengths[cds] * n ELSE total

RECURSIVE WeightedSum(_, _, _, _)
WeightedSum(rows, lengths, total, n) ==
    IF rows = <<>> THEN 0
    ELSE Head(rows).observed_effect_size.v * WeightNum(Head(rows).CDS, lengths, total, n)
         + WeightedSum(Tail(rows), lengths, total, n)

Raised ==
    [raised |-> TRUE, combined_pvalue |-> <<>>, weighted_effect_size |-> FracNaN,
     n_comparisons |-> 0, n_valid_cds |-> 0, cluster_pairs |-> {}]

combine_cluster_evidence(cdss, df, res) ==
    LET cluster_data == ClusterData(cdss, df)
        weights      == Lengths(cdss)
        total_length == SumOver(DOMAIN weights, weights)
        n            == Cardinality(cdss)
        valid        == ValidRows(cluster_data)
        valid_cdss   == Len(valid)
        cluster_pairs == UnionOfPairs(valid, res)
        valid_pvals  == SelectSeq([k \in DOMAIN valid |-> valid[k].p_value],
                                  LAMBDA p : ~p.nan)
        valid_weights == [k \in DOMAIN valid |->
                             WeightNum(valid[k].CDS, weights, total_length, n)]
    IN  IF DOMAIN weights # {} /\ total_length = 0 THEN Raised
        ELSE IF valid_cdss > 0
        THEN [raised |-> FALSE,
              combined_pvalue |->
                  IF Len(valid_pvals) > 0
                  THEN <<"stouffer", valid_pvals, valid_weights>>
                  ELSE <<"nan">>,
              weighted_effect_size |->
                  Frac(WeightedSum(valid, weights,
                                   IF DOMAIN weights = {} THEN 1 ELSE total_length, n),
                       (IF DOMAIN weights = {} THEN 1 ELSE total_length) * n),
              n_comparisons |-> Cardinality(cluster_pairs),
              n_valid_cds |-> valid_cdss,
              cluster_pairs |-> cluster_pairs]
        ELSE [raised |-> FALSE, combined_pvalue |-> <<"nan">>,
              weighted_effect_size |-> FracNaN,
              n_comparisons |-> 0, n_valid_cds |-> 0,
              cluster_pairs |-> cluster_pairs]

\* Regions: two that overlap, and one of length 0
CombineIds == {Fmt1(ChrA, 2, 4), Fmt1(ChrA, 3, 6), Fmt1(ChrA, 7, 7)}

\* Comparison keys (Seq1, Seq2) over three samples
K12 == <<"s1_1", "s2_1">>
K21 == <<"s2_1", "s1_1">>
K13 == <<"s1_1", "s3_1">>
PairSets == {{K12}, {K21}, {K12, K13}}

\* effect size and p-value of a region's test (the p-value in hundredths;
\* a p-value that underflowed is 0)
TestOutcomes ==
    {[observed_effect_size |-> Num(2), p_value |-> Num(5)],
     [observed_effect_size |-> Num(2), p_value |-> Num(0)],
     [observed_effect_size |-> Num(2), p_value |-> NaN],
     [observed_effect_size |-> NaN, p_value |-> NaN]}

RowsFor(ids) ==
    {[k \in DOMAIN ids |->
         [CDS |-> ids[k],
          observed_effect_size |-> t[k].observed_effect_size,
          p_value |-> t[k].p_value]] : t \in [DOMAIN ids -> TestOutcomes]}

InitCombine ==
    /\ DndsIdle /\ ClusterIdle /\ MatrixIdle /\ LaterIdle
    /\ \E ids \in InjSeqsUpTo(CombineIds, MaxCds) :
          /\ ids # <<>>
          /\ results_df \in RowsFor(ids)
          /\ an_results \in [Range(ids) -> [pairwise_comparisons : PairSets]]
          /\ cluster_cdss \in (SUBSET Range(ids)) \ {{}}
    /\ cmb_pc = "start"
    /\ evidence = <<>>

CombineClusterEvidence ==
    /\ cmb_pc = "start"
    /\ evidence' = combine_cluster_evidence(cluster_cdss, results_df, an_results)
    /\ cmb_pc' = "done"
    /\ UNCHANGED <<cluster_cdss, results_df, an_results, not_combine>>

SpecCombine == InitCombine /\ [][CombineClusterEvidence]_vars

\* The sample pair of a comparison key, without its order
SamplePair(key) == {key[1], key[2]}

SamplePairsOf(cds) ==
    {SamplePair(k) : k \in an_results[cds].pairwise_comparisons}

SumOfCounts ==
    SumOver(cluster_cdss,
            [c \in cluster_cdss |-> Cardinality(an_results[c].pairwise_comparisons)])

NoSharedPair ==
    \A c1, c2 \in cluster_cdss :
        c1 # c2 => SamplePairsOf(c1) \cap SamplePairsOf(c2) = {}

\* C9: the deduplicated comparison count combine_cluster_evidence returns for a
\* cluster is at most the sum of its member regions' comparison counts, and
\* equals that sum exactly when no two member regions share a sample pair.
C9_DedupCount ==
    (cmb_pc = "done" /\ ~evidence.raised) =>
        /\ evidence.n_comparisons <= SumOfCounts
        /\ (evidence.n_comparisons = SumOfCounts) <=> NoSharedPair

\* The rows of the cluster's member regions
MemberRows == ClusterData(cluster_cdss, results_df)

ZeroValidRegions ==
    \A k \in DOMAIN MemberRows : MemberRows[k].observed_effect_size.nan

\* C11: for a cluster of which every member region has an undefined effect
\* size, combine_cluster_evidence returns combined p-value NaN, weighted
\* effect size NaN and comparison count 0.
C11_EmptyClusterEvidence ==
    (cmb_pc = "done" /\ ZeroValidRegions) =>
        /\ ~evidence.raised
        /\ evidence.combined_pvalue = <<"nan">>
        /\ evidence.weighted_effect_size.nan
        /\ evidence.n_comparisons = 0

----------------------------------------------------------------------------
\* src/pairwise_matrix_test.py : main from build_overlap_clusters on,
\* compute_overall_significance

\* A combined p-value or effect: undefined, or the value of a method
Undefined == [nan |-> TRUE, method |-> "none"]
Defined(method) == [nan |-> FALSE, method |-> method]

RECURSIVE SumSeq(_)
SumSeq(l) == IF l = <<>> THEN 0 ELSE Head(l) + SumSeq(Tail(l))

\* combine_pvalues(valid_pvals, method='stouffer', weights=valid_weights)
\* after valid_weights /= valid_weights.sum(): the call raises on weights of
\* another length than the p-values (a library that broadcasts instead
\* accepts one p-value), and weights that were divided by 0 give NaN
combine_pvalues_stouffer(pvals, weights, checks_size) ==
    IF Len(weights) # Len(pvals) /\ (checks_size \/ Len(pvals) # 1) THEN "raise"
    ELSE IF SumSeq(weights) = 0 THEN "nan"
    ELSE "value"

\* The Stouffer call of combine_cluster_evidence on what it collected
StoufferCall(ev, checks_size) ==
    IF ev.raised \/ ev.combined_pvalue = <<"nan">> THEN "nan"
    ELSE combine_pvalues_stouffer(ev.combined_pvalue[2], ev.combined_pvalue[3],
                                  checks_size)

\* The dict combine_cluster_evidence returns, or the exception it lets through
WithCombinedP(ev, call) ==
    IF ev.raised \/ call = "raise"
    THEN [Raised EXCEPT !.combined_pvalue = Undefined]
    ELSE [ev EXCEPT !.combined_pvalue =
                        IF call = "nan" THEN Undefined ELSE Defined("stouffer")]

\* One iteration of the loop over clusters.items()
ClusterStat(cdss, df, res, checks_size) ==
    WithCombinedP(combine_cluster_evidence(cdss, df, res),
                  StoufferCall(combine_cluster_evidence(cdss, df, res), checks_size))

\* The clusters with a defined combined_pvalue and weighted_effect_size
ValidClusters(cluster_results) ==
    {cid \in DOMAIN cluster_results :
        /\ ~cluster_results[cid].combined_pvalue.nan
        /\ ~cluster_results[cid].weighted_effect_size.nan}

\* A plausible slip: the comparisons counted, not the keys united
TotalOfCounts(cluster_results, valid) ==
    SumOver(valid, [cid \in valid |-> cluster_results[cid].n_comparisons])

\* all_unique_pairs.update(c['cluster_pairs']) over the valid clusters
TotalComparisons(cluster_results, valid) ==
    Cardinality(UNION {cluster_results[cid].cluster_pairs : cid \in valid})

compute_overall_significance(cluster_results) ==
    LET valid_clusters == ValidClusters(cluster_results)
    IN  IF valid_clusters # {}
        THEN [overall_pvalue |-> Defined("fisher"),
              overall_pvalue_fisher |-> Defined("fisher"),
              overall_pvalue_stouffer |-> Defined("stouffer"),
              overall_effect |-> Defined("average"),
              n_valid_clusters |-> Cardinality(valid_clusters),
              total_comparisons |-> TotalComparisons(cluster_results, valid_clusters)]
        ELSE [overall_pvalue |-> Undefined,
              overall_pvalue_fisher |-> Undefined,
              overall_pvalue_stouffer |-> Undefined,
              overall_effect |-> Undefined,
              n_valid_clusters |-> 0,
              total_comparisons |-> 0]

\* float(x) if not np.isnan(x) else None
JsonFloat(x) == IF x.nan THEN None ELSE x.method

\* The dict main dumps to overall_results.json
JsonSafeResults(overall) ==
    [overall_pvalue |-> JsonFloat(overall.overall_pvalue),
     overall_pvalue_fisher |-> JsonFloat(overall.overall_pvalue_fisher),
     overall_effect |-> JsonFloat(overall.overall_effect),
     n_valid_clusters |-> overall.n_valid_clusters,
     total_comparisons |-> overall.total_comparisons]

\* The keys of a dict in insertion order: cluster ids are inserted in
\* increasing order
RECURSIVE Ascending(_)
Ascending(S) ==
    IF S = {} THEN <<>> ELSE <<Min(S)>> \o Ascending(S \ {Min(S)})

\* Regions with a test result: two that overlap, one of length 0 and one on
\* another chromosome
OverallIds == CombineIds \cup {Fmt1(ChrB, 3, 6)}

OverallPairSets == {{K12}, {K12, K13}}

InitOverall ==
    /\ DndsIdle /\ MatrixIdle /\ LaterIdleButMain
    /\ \E ids \in InjSeqsUpTo(OverallIds, MaxCds) :
          /\ ids # <<>>
          /\ cds_list = ids
          /\ results_df \in RowsFor(ids)
          /\ an_results \in [Range(ids) -> [pairwise_comparisons : OverallPairSets]]
    /\ cluster_cdss = {} /\ cmb_pc = "idle" /\ evidence = <<>>
    /\ cl_pc = "start" /\ cds_coords = <<>> /\ sweep_i = 0
    /\ active_regions = <<>> /\ clusters = <<>> /\ cluster_id = 0
    /\ cds_to_cluster = <<>>
    /\ main_pc = "build"
    /\ stouffer_checks_size \in BOOLEAN
    /\ todo = <<>> /\ cluster_stats = <<>>
    /\ overall_results = <<>> /\ json_safe_results = <<>>

\* clusters = build_overlap_clusters(results_df) has returned
ClustersBuilt ==
    /\ main_pc = "build"
    /\ cl_pc = "done"
    /\ todo' = Ascending(DOMAIN clusters)
    /\ main_pc' = "combine"
    /\ UNCHANGED <<stouffer_checks_size, cluster_stats, overall_results,
                   json_safe_results, not_main>>

\* cluster_stats[cluster_id] = combine_cluster_evidence(...); an exception
\* leaves main
CombineNextCluster ==
    /\ main_pc = "combine"
    /\ todo # <<>>
    /\ \E stat \in {ClusterStat(clusters[Head(todo)], results_df, an_results,
                                 stouffer_checks_size)} :
          IF stat.raised
          THEN /\ main_pc' = "raised"
               /\ UNCHANGED <<todo, cluster_stats>>
          ELSE /\ cluster_stats' = Put(cluster_stats, Head(todo), stat)
               /\ todo' = Tail(todo)
               /\ main_pc' = main_pc
    /\ UNCHANGED <<stouffer_checks_size, overall_results, json_safe_results,
                   not_main>>

\* overall_results = compute_overall_significance(cluster_stats)
ComputeOverall ==
    /\ main_pc = "combine"
    /\ todo = <<>>
    /\ overall_results' = compute_overall_significance(cluster_stats)
    /\ main_pc' = "overall"
    /\ UNCHANGED <<stouffer_checks_size, todo, cluster_stats, json_safe_results,
                   not_main>>

\* json.dump(json_safe_results, f)
WriteSummary ==
    /\ main_pc = "overall"
    /\ json_safe_results' = JsonSafeResults(overall_results)
    /\ main_pc' = "done"
    /\ UNCHANGED <<stouffer_checks_size, todo, cluster_stats, overall_results,
                   not_main>>

NextOverall ==
    \/ ParseAndSort \/ SweepStep \/ SweepDone
    \/ ClustersBuilt \/ CombineNextCluster \/ ComputeOverall \/ WriteSummary

SpecOverall == InitOverall /\ [][NextOverall]_vars

\* C12: no cluster that build_overlap_clusters produces makes
\* combine_cluster_evidence raise: the loop over the clusters is never left
\* by an exception, so every cluster gets its record.
C12_NoClusterAborts == main_pc # "raised"

\* C13: the overall result holds the Fisher and the weighted-Stouffer combined
\* p-value, the primary p-value is the Fisher one, and the summary main writes
\* holds the combined p-value of each method.
C13_SummaryHasBothMethods ==
    main_pc = "done" =>
        /\ {"overall_pvalue_fisher", "overall_pvalue_stouffer"}
               \subseteq DOMAIN overall_results
        /\ overall_results.overall_pvalue = overall_results.overall_pvalue_fisher
        /\ {"overall_pvalue_fisher", "overall_pvalue_stouffer"}
               \subseteq DOMAIN json_safe_results
        /\ json_safe_results.overall_pvalue = json_safe_results.overall_pvalue_fisher

\* The union of the comparison-key sets of the clusters S
KeysOf(S) == UNION {cluster_stats[cid].cluster_pairs : cid \in S}

CountsOf(S) == SumOver(S, [cid \in S |-> cluster_stats[cid].n_comparisons])

OverallComputed == main_pc \in {"overall", "done"}

\* C14: the total of unique comparisons compute_overall_significance reports
\* is the size of the union of the comparison-key sets of all the clusters
\* given to it, so at most the sum of the clusters' counts.
C14_TotalIsUnionOfAll ==
    OverallComputed =>
        /\ overall_results.total_comparisons
               = Cardinality(KeysOf(DOMAIN cluster_stats))
        /\ overall_results.total_comparisons <= CountsOf(DOMAIN cluster_stats)

\* C14: the total is the size of the union of the comparison-key sets of the
\* clusters that pass the filter (defined combined p-value and defined
\* weighted effect size), so at most the sum of these clusters' counts, and a
\* key of any of these sets is counted once.
C14_TotalIsUnionOfValid ==
    OverallComputed =>
        /\ overall_results.total_comparisons
               = Cardinality(KeysOf(ValidClusters(cluster_stats)))
        /\ overall_results.total_comparisons
               <= CountsOf(ValidClusters(cluster_stats))
        /\ overall_results.n_valid_clusters
               = Cardinality(ValidClusters(cluster_stats))

\* Two valid clusters that hold the same key: the total is below the sum
C14_Witness ==
    /\ OverallComputed
    /\ Cardinality(ValidClusters(cluster_stats)) = 2
    /\ overall_results.total_comparisons < CountsOf(ValidClusters(cluster_stats))
    /\ overall_results.total_comparisons > 0

----------------------------------------------------------------------------
\* src/dnds.py : get_safe_process_count

\* the memory reserved per process, in GiB
GiBPerProcess == 4

\* the share of the CPUs used: one process per so many CPUs
CpusPerProcess == 4

\* the largest number of processes
ProcessCap == 8

\* A plausible slip: the cap on the number of processes left out
SafeCpuCountUncapped(cpus) == Max2(1, cpus \div CpusPerProcess)

\* max(1, min(total_cpus // 4, 8))
SafeCpuCount(cpus) == Max2(1, Min2(cpus \div CpusPerProcess, ProcessCap))

\* max(1, int(mem.available / (4 * 1024 * 1024 * 1024)))
MemBasedCount(mem_gib) == Max2(1, mem_gib \div GiBPerProcess)

get_safe_process_count(cpus, mem_gib) ==
    Min2(SafeCpuCount(cpus), MemBasedCount(mem_gib))

InitPool ==
    /\ DndsIdle /\ ClusterIdle /\ MatrixIdle /\ CombineIdle /\ LaterIdleButPool
    /\ total_cpus \in 1..MaxCpus
    /\ mem_available \in 0..MaxMemGiB
    /\ pool_pc = "start"
    /\ process_count = 0

GetSafeProcessCount ==
    /\ pool_pc = "start"
    /\ process_count' = get_safe_process_count(total_cpus, mem_available)
    /\ pool_pc' = "done"
    /\ UNCHANGED <<total_cpus, mem_available, not_pool>>

SpecPool == InitPool /\ [][GetSafeProcessCount]_vars

\* C15: the pool size is max(1, min(available_cores/2, available_memory/2GiB))
\* for every number of cores and amount of memory.
C15_PoolSizeHalves ==
    pool_pc = "done" =>
        process_count = Max2(1, Min2(total_cpus \div 2, mem_available \div 2))

\* n processes fit: each has 4 CPUs and 4 GiB of available memory, and there
\* are at most 8
Fits(n) ==
    /\ n <= 8
    /\ 4 * n <= total_cpus
    /\ 4 * n <= mem_available

\* C15: the pool size is the largest number of processes, at most 8, that
\* leaves each process 4 CPUs and 4 GiB of available memory,
\* and 1 when not even one process fits.
C15_PoolSizeQuarters ==
    pool_pc = "done" =>
        /\ process_count >= 1
        /\ process_count > 1 => Fits(process_count)
        /\ ~Fits(process_count + 1)

\* A machine with CPUs for the full 8 processes and memory for 3
C15_Witness ==
    /\ pool_pc = "done"
    /\ total_cpus >= 36
    /\ mem_available \in 12..15
    /\ process_count = 3

\* ---- src/pairwise_matrix_test.py : the result cache and the per-CDS analysis

\* At most MaxTasks regions in the input, and MaxRuns runs of the program
MaxTasks == 2
MaxRuns == 2

\* min_sequences_per_group
MinSequencesPerGroup == 10

PKL == <<".", "p", "k", "l">>

\* CACHE_DIR / f"{cds.replace('/', '_')}.pkl"
get_cache_path(cds) == Replace(cds, <<"/">>, <<"_">>) \o PKL

\* What a call that may return None gives: <<>> for None, <<r>> for the result r
NoResult == <<>>
Some(r) == <<r>>

\* The bytes of a cache file: empty right after open(cache_path, 'wb'),
\* the pickled object once pickle.dump has written it
EmptyFile == <<>>
pickle_dump(result) == <<result>>

\* pickle.load inside "try: ... except: return None": an empty file raises EOFError
pickle_load(bytes) == IF bytes = EmptyFile THEN NoResult ELSE Some(bytes[1])

\* The file exists and pickle.load raises: the bare except returns None
LoadRaises(cds, dir) ==
    /\ get_cache_path(cds) \in DOMAIN dir
    /\ pickle_load(dir[get_cache_path(cds)]) = NoResult

load_cached_result(cds, dir) ==
    IF get_cache_path(cds) \in DOMAIN dir
    THEN pickle_load(dir[get_cache_path(cds)])
    ELSE NoResult

\* A row of df_cds
Row(s1, s2, w) == [Seq1 |-> s1, Seq2 |-> s2, omega |-> w]

\* {(str(row['Seq1']), str(row['Seq2'])): row['omega'] for _, row in df_cds.iterrows()}
PairwiseDictOf(df_cds) ==
    [k \in {<<df_cds[n].Seq1, df_cds[n].Seq2>> : n \in DOMAIN df_cds} |->
        LET last == CHOOSE n \in DOMAIN df_cds :
                        /\ <<df_cds[n].Seq1, df_cds[n].Seq2>> = k
                        /\ \A o \in DOMAIN df_cds :
                               <<df_cds[o].Seq1, df_cds[o].Seq2>> = k => o <= n
        IN  df_cds[last].omega]

\* Series.unique(): the values in order of first appearance
RECURSIVE Unique(_, _)
Unique(l, seen) ==
    IF l = <<>> THEN <<>>
    ELSE IF Head(l) \in seen THEN Unique(Tail(l), seen)
    ELSE <<Head(l)>> \o Unique(Tail(l), seen \cup {Head(l)})

\* pd.concat([df_cds['Seq1'], df_cds['Seq2']]).unique()
AllSeqs(df_cds) ==
    Unique([n \in DOMAIN df_cds |-> df_cds[n].Seq1]
           \o [n \in DOMAIN df_cds |-> df_cds[n].Seq2], {})

\* The ids read_and_preprocess_data hands out are f"{seq_id}_{count}" with
\* count 1, or None for a second occurrence of a sample in its column
UniqueIds == {"s1_1", "s2_1", "s3_1"}

\* seq.endswith('1')
EndsWith1(seq) == seq \in UniqueIds

\* The statistics of analysis_worker's mixed model on the dict d (not computed here)
Fit(d) == [nan |-> FALSE, v |-> d]

\* analyze_cds_parallel past the cache lookup: whether it raises
\* (None has no endswith; create_matrices may raise), and the result it builds
AnalysisRaises(df_cds) ==
    LET all_seqs == AllSeqs(df_cds)
    IN  \/ None \in Range(all_seqs)
        \/ create_matrices(SelectSeq(all_seqs, LAMBDA q : ~EndsWith1(q)),
                           SelectSeq(all_seqs, EndsWith1),
                           PairwiseDictOf(df_cds)).raised

AnalysisResult(df_cds) ==
    LET d        == PairwiseDictOf(df_cds)
        all_seqs == AllSeqs(df_cds)
        s0       == SelectSeq(all_seqs, LAMBDA q : ~EndsWith1(q))
        s1       == SelectSeq(all_seqs, EndsWith1)
        m        == create_matrices(s0, s1, d)
        few      == Len(s0) < MinSequencesPerGroup \/ Len(s1) < MinSequencesPerGroup
    IN  [matrix_0 |-> m.matrix_0,
         matrix_1 |-> m.matrix_1,
         pairwise_comparisons |-> DOMAIN d,
         observed_effect_size |-> IF few THEN NaN ELSE Fit(d),
         p_value |-> IF few THEN NaN ELSE Fit(d),
         n0 |-> Len(s0),
         n1 |-> Len(s1),
         std_err |-> IF few THEN NaN ELSE Fit(d)]

\* Region identifiers; two of them differ only in '/' against '_'
CacheKeys == {<<"a", "/", "1">>, <<"a", "_", "1">>, <<"b">>}

\* The rows a region can have after read_and_preprocess_data
DfChoices ==
    {<<Row("s1_1", "s2_1", Num(1))>>,
     <<Row("s2_1", "s3_1", Num(2))>>,
     <<Row("s1_1", "s2_1", Num(1)), Row(None, "s3_1", Num(2))>>}

Tasks == DOMAIN cds_args

\* The state in which a run of main starts its executor.map
StartOfRun ==
    /\ task_pc' = [i \in Tasks |-> "queued"]
    /\ task_result' = [i \in Tasks |-> NoResult]
    /\ cds_results' = <<>>
    /\ collected' = 0
    /\ load_failed' = {}

InitCache ==
    /\ DndsIdle /\ ClusterIdle /\ MatrixIdle /\ CombineIdle /\ LaterIdleButCache
    /\ \E ids \in InjSeqsUpTo(CacheKeys, MaxTasks) :
          /\ ids # <<>>
          /\ cds_args \in {[i \in DOMAIN ids |-> [cds |-> ids[i], df_cds |-> f[i]]] :
                              f \in [DOMAIN ids -> DfChoices]}
    /\ cache_dir = <<>>
    /\ task_pc = [i \in DOMAIN cds_args |-> "queued"]
    /\ task_result = [i \in DOMAIN cds_args |-> NoResult]
    /\ cds_results = <<>>
    /\ collected = 0
    /\ run = 1
    /\ saved = [k \in CacheKeys |-> NoResult]
    /\ saved_run = [k \in CacheKeys |-> 0]
    /\ computed = {}
    /\ load_failed = {}

\* Worker, lines 826-828: the cache lookup and the early return
LoadCached(i) ==
    /\ task_pc[i] = "queued"
    /\ LET cached_result == load_cached_result(cds_args[i].cds, cache_dir)
       IN  IF cached_result # NoResult
           THEN /\ task_pc' = [task_pc EXCEPT ![i] = "returned"]
                /\ task_result' = [task_result EXCEPT ![i] = cached_result]
           ELSE /\ task_pc' = [task_pc EXCEPT ![i] = "miss"]
                /\ UNCHANGED task_result
    /\ load_failed' = IF LoadRaises(cds_args[i].cds, cache_dir)
                      THEN load_failed \cup {i} ELSE load_failed
    /\ UNCHANGED <<cds_args, cache_dir, cds_results, collected, run, saved,
                   saved_run, computed, not_cache>>

\* Worker, lines 830-873: the matrices and the test
Analyze(i) ==
    /\ task_pc[i] = "miss"
    /\ computed' = computed \cup {<<cds_args[i].cds, run>>}
    /\ IF AnalysisRaises(cds_args[i].df_cds)
       THEN /\ task_pc' = [task_pc EXCEPT ![i] = "raised"]
            /\ UNCHANGED task_result
       ELSE /\ task_pc' = [task_pc EXCEPT ![i] = "computed"]
            /\ task_result' = [task_result EXCEPT
                                  ![i] = Some(AnalysisResult(cds_args[i].df_cds))]
    /\ UNCHANGED <<cds_args, cache_dir, cds_results, collected, run, saved,
                   saved_run, load_failed, not_cache>>

\* Worker, line 876, save_cached_result: open(cache_path, 'wb') creates or empties the file
OpenCacheFile(i) ==
    /\ task_pc[i] = "computed"
    /\ cache_dir' = Put(cache_dir, get_cache_path(cds_args[i].cds), EmptyFile)
    /\ task_pc' = [task_pc EXCEPT ![i] = "opened"]
    /\ UNCHANGED <<cds_args, task_result, cds_results, collected, run, saved,
                   saved_run, computed, load_failed, not_cache>>

\* Worker, lines 876-877: pickle.dump, the file is closed, the call returns
DumpAndReturn(i) ==
    /\ task_pc[i] = "opened"
    /\ cache_dir' = Put(cache_dir, get_cache_path(cds_args[i].cds),
                        pickle_dump(task_result[i][1]))
    /\ task_pc' = [task_pc EXCEPT ![i] = "returned"]
    /\ saved' = [saved EXCEPT ![cds_args[i].cds] = task_result[i]]
    /\ saved_run' = [saved_run EXCEPT ![cds_args[i].cds] = IF @ = 0 THEN run ELSE @]
    /\ UNCHANGED <<cds_args, task_result, cds_results, collected, run, computed,
                   load_failed, not_cache>>

\* Coordinator, lines 1142-1147: executor.map yields the results in the order
\* of cds_args; results[cds] = result
Collect ==
    /\ collected < Len(cds_args)
    /\ task_pc[collected + 1] = "returned"
    /\ cds_results' = Put(cds_results, cds_args[collected + 1].cds,
                          task_result[collected + 1][1])
    /\ collected' = collected + 1
    /\ UNCHANGED <<cds_args, cache_dir, task_pc, task_result, run, saved,
                   saved_run, computed, load_failed, not_cache>>

\* The program is started again on the same input, after the previous run
\* ended or was stopped; the files of CACHE_DIR stay
StartRun ==
    /\ run < MaxRuns
    /\ run' = run + 1
    /\ StartOfRun
    /\ UNCHANGED <<cds_args, cache_dir, saved, saved_run, computed, not_cache>>

NextCache ==
    \/ \E i \in Tasks : LoadCached(i)
    \/ \E i \in Tasks : Analyze(i)
    \/ \E i \in Tasks : OpenCacheFile(i)
    \/ \E i \in Tasks : DumpAndReturn(i)
    \/ Collect
    \/ StartRun

SpecCache == InitCache /\ [][NextCache]_vars

\* C16: the cache is written by the coordinator only: every step that changes
\* a cache file is the coordinator's step that takes a worker's result
C16_CoordinatorOwnsCache ==
    [][cache_dir' # cache_dir => collected' = collected + 1]_vars

\* C17: once save_cached_result(k, r) has completed, load_cached_result(k)
\* gives r, and in every later run the analysis of k returns r from the cache
\* without computing or saving anything
C17_CacheRoundTrip ==
    \A i \in Tasks :
        LET k == cds_args[i].cds
        IN  saved[k] # NoResult =>
               /\ load_cached_result(k, cache_dir) = saved[k]
               /\ run > saved_run[k] =>
                     /\ task_pc[i] \in {"queued", "returned"}
                     /\ task_pc[i] = "returned" => task_result[i] = saved[k]
                     /\ <<k, run>> \notin computed

----------------------------------------------------------------------------
\* src/dnds.py : main and process_phy_file over runs that may be stopped

\* At most MaxFiles .phy files in phy_dir
MaxFiles == 2

\* cds_id of a file name group_<g>_chr_<c>_start_<s>_end_<e>.phy: the
\* locus chr<c>_start<s>_end<e>, without the group
CdsId(name) == name.locus

\* The file names: two groups of one locus, and another locus
PhyNames ==
    {[group |-> "0", locus |-> "chr1_start1_end9"],
     [group |-> "1", locus |-> "chr1_start1_end9"],
     [group |-> "1", locus |-> "chr2_start1_end9"]}

Loci == {CdsId(name) : name \in PhyNames}

\* The contents: one pair for CODEML, one pair of identical sequences, no pair
PhyContents ==
    {<<[name |-> FN_A0, seq |-> SeqATG], [name |-> FN_B0, seq |-> SeqATC]>>,
     <<[name |-> FN_A0, seq |-> SeqATG], [name |-> FN_Q, seq |-> SeqATG]>>,
     <<[name |-> FN_D1, seq |-> SeqATG]>>}

\* A file of output_dir: whether it exists, the rows it holds, and whether
\* to_csv has finished writing it
NoFile == [exists |-> FALSE, rows |-> <<>>, complete |-> FALSE]

\* open(path, 'w') by to_csv: the file exists and is empty
OpenedFile == [exists |-> TRUE, rows |-> <<>>, complete |-> FALSE]

\* df.to_csv(path, index=False): the file holds the rows of df and nothing else
to_csv(file, rows) == [exists |-> TRUE, rows |-> rows, complete |-> TRUE]

\* What a stopped to_csv leaves: some leading rows of df
StoppedCsv(rows) ==
    {[exists |-> TRUE, rows |-> SubSeq(rows, 1, n), complete |-> FALSE] :
        n \in 0..Len(rows)}

\* No output is ever found in output_dir
OutputsNeverExist(dir, cds_id) == FALSE

\* os.path.exists(output_csv) and os.path.exists(haplotype_output_csv)
OutputsExist(dir, cds_id) == dir[cds_id].csv.exists /\ dir[cds_id].hap.exists

\* The state of process_phy_file when it is entered, left or not running
ResetDnds(lines, g, position, returned) ==
    /\ phy' = lines /\ group' = g /\ pc' = position /\ sequences' = <<>>
    /\ sample_groups' = <<>> /\ pairs' = <<>> /\ pending' = {} /\ results' = <<>>
    /\ completed' = 0 /\ working_dirs' = {} /\ codeml_calls' = <<>>
    /\ codeml_procs' = <<>> /\ output_csv' = <<>> /\ haplotype_csv' = <<>>
    /\ ret' = returned

\* The file process_phy_file is working on, and its cds_id
CurrentFile == phy_files[files_to_process[work_i]]
CurrentCds == CdsId(CurrentFile.name)

InitResume ==
    /\ DndsIdle /\ ClusterIdle /\ MatrixIdle /\ CombineIdle /\ LaterIdleButResume
    /\ \E names \in InjSeqsUpTo(PhyNames, MaxFiles) :
          /\ names # <<>>
          /\ phy_files \in {[i \in DOMAIN names |-> [name |-> names[i], lines |-> f[i]]] :
                               f \in [DOMAIN names -> PhyContents]}
    /\ out_dir = [c \in Loci |-> [csv |-> NoFile, hap |-> NoFile]]
    /\ rs_pc = "scan"
    /\ files_to_process = <<>>
    /\ work_i = 0
    /\ run_no = 1
    /\ recomputed = {}
    /\ persisted_run = [c \in Loci |-> 0]

\* main, lines 1006-1030: the files whose two outputs do not both exist
ScanFiles ==
    /\ rs_pc = "scan"
    /\ files_to_process' =
          SelectSeq([i \in DOMAIN phy_files |-> i],
                    LAMBDA i : ~OutputsExist(out_dir, CdsId(phy_files[i].name)))
    /\ rs_pc' = IF files_to_process' = <<>> THEN "exit" ELSE "loop"
    /\ work_i' = 1
    /\ UNCHANGED <<phy_files, out_dir, run_no, recomputed, persisted_run,
                   dnds_vars, not_dnds_nor_resume>>

\* main, line 1034, and process_phy_file, lines 370-395: the call, and the
\* return at once when both outputs exist
BeginFile ==
    /\ rs_pc = "loop"
    /\ work_i <= Len(files_to_process)
    /\ IF OutputsExist(out_dir, CurrentCds)
       THEN /\ work_i' = work_i + 1
            /\ UNCHANGED <<rs_pc, recomputed, dnds_vars>>
       ELSE /\ rs_pc' = "file"
            /\ recomputed' = recomputed \cup {<<CurrentCds, run_no>>}
            /\ ResetDnds(CurrentFile.lines, CurrentFile.name.group, "start", "running")
            /\ UNCHANGED work_i
    /\ UNCHANGED <<phy_files, out_dir, files_to_process, run_no, persisted_run,
                   not_dnds_nor_resume>>

\* process_phy_file, lines 461-480: the loop has ended; temp_dir is removed,
\* the cross-group check is made and to_csv opens <cds_id>.csv
OpenTable ==
    /\ rs_pc = "file"
    /\ pc = "pool"
    /\ PoolDrained(pending)
    /\ working_dirs' = {}
    /\ IF \E k \in DOMAIN results : results[k].Group1 # results[k].Group2
       THEN /\ ret' = None
            /\ pc' = "done"
            /\ UNCHANGED out_dir
       ELSE /\ out_dir' = [out_dir EXCEPT ![CurrentCds].csv = OpenedFile]
            /\ pc' = "csv_open"
            /\ UNCHANGED ret
    /\ UNCHANGED <<phy, group, sequences, sample_groups, pairs, pending, results,
                   completed, codeml_calls, codeml_procs, output_csv, haplotype_csv,
                   phy_files, rs_pc, files_to_process, work_i, run_no, recomputed,
                   persisted_run, not_dnds_nor_resume>>

\* process_phy_file, line 480: the rows are written
WriteTable ==
    /\ rs_pc = "file"
    /\ pc = "csv_open"
    /\ output_csv' = results
    /\ out_dir' = [out_dir EXCEPT ![CurrentCds].csv = to_csv(@, results)]
    /\ pc' = "csv_done"
    /\ UNCHANGED <<phy, group, sequences, sample_groups, pairs, pending, results,
                   completed, working_dirs, codeml_calls, codeml_procs, haplotype_csv,
                   ret, phy_files, rs_pc, files_to_process, work_i, run_no,
                   recomputed, persisted_run, not_dnds_nor_resume>>

\* process_phy_file, lines 483-518: the statistics are computed and to_csv
\* opens <cds_id>_haplotype_stats.csv
OpenHaplotypes ==
    /\ rs_pc = "file"
    /\ pc = "csv_done"
    /\ haplotype_csv' = HaplotypeStats(results, Keys(sequences), sample_groups)
    /\ out_dir' = [out_dir EXCEPT ![CurrentCds].hap = OpenedFile]
    /\ pc' = "hap_open"
    /\ UNCHANGED <<phy, group, sequences, sample_groups, pairs, pending, results,
                   completed, working_dirs, codeml_calls, codeml_procs, output_csv,
                   ret, phy_files, rs_pc, files_to_process, work_i, run_no,
                   recomputed, persisted_run, not_dnds_nor_resume>>

\* process_phy_file, lines 518-520: the rows are written and the path returned
WriteHaplotypes ==
    /\ rs_pc = "file"
    /\ pc = "hap_open"
    /\ out_dir' = [out_dir EXCEPT ![CurrentCds].hap = to_csv(@, haplotype_csv)]
    /\ persisted_run' = [persisted_run EXCEPT
                            ![CurrentCds] = IF @ = 0 /\ out_dir[CurrentCds].csv.complete
                                            THEN run_no ELSE @]
    /\ pc' = "done"
    /\ ret' = "haplotype_output_csv"
    /\ UNCHANGED <<phy, group, sequences, sample_groups, pairs, pending, results,
                   completed, working_dirs, codeml_calls, codeml_procs, output_csv,
                   haplotype_csv, phy_files, rs_pc, files_to_process, work_i, run_no,
                   recomputed, not_dnds_nor_resume>>

\* The loop over the files ends with the first file that returned None
EndFileOrAbort ==
    /\ rs_pc = "file"
    /\ pc = "done"
    /\ rs_pc' = IF ret = None THEN "exit" ELSE "loop"
    /\ work_i' = work_i + 1
    /\ ResetDnds(<<>>, None, "idle", "idle")
    /\ UNCHANGED <<phy_files, out_dir, files_to_process, run_no, recomputed,
                   persisted_run, not_dnds_nor_resume>>

\* main, lines 1033-1036: process_phy_file has returned, on to the next file
EndFile ==
    /\ rs_pc = "file"
    /\ pc = "done"
    /\ rs_pc' = "loop"
    /\ work_i' = work_i + 1
    /\ ResetDnds(<<>>, None, "idle", "idle")
    /\ UNCHANGED <<phy_files, out_dir, files_to_process, run_no, recomputed,
                   persisted_run, not_dnds_nor_resume>>

\* main, lines 1038-1042: every kept file was handled
EndOfRun ==
    /\ rs_pc = "loop"
    /\ work_i > Len(files_to_process)
    /\ rs_pc' = "exit"
    /\ UNCHANGED <<phy_files, out_dir, files_to_process, work_i, run_no, recomputed,
                   persisted_run, dnds_vars, not_dnds_nor_resume>>

\* The program is stopped wherever it is, or has ended, and is started again
\* on the same directories; a to_csv under way leaves some of its rows
StartAgain ==
    /\ run_no < MaxRuns
    /\ run_no' = run_no + 1
    /\ rs_pc' = "scan"
    /\ files_to_process' = <<>>
    /\ work_i' = 0
    /\ out_dir' \in
          IF rs_pc = "file" /\ pc = "csv_open"
          THEN {[out_dir EXCEPT ![CurrentCds].csv = f] : f \in StoppedCsv(results)}
          ELSE IF rs_pc = "file" /\ pc = "hap_open"
          THEN {[out_dir EXCEPT ![CurrentCds].hap = f] : f \in StoppedCsv(haplotype_csv)}
          ELSE {out_dir}
    /\ ResetDnds(<<>>, None, "idle", "idle")
    /\ UNCHANGED <<phy_files, recomputed, persisted_run, not_dnds_nor_resume>>

NextResume ==
    \/ ScanFiles
    \/ BeginFile
    \/ ParseAndGenerate
    \/ \E i \in DOMAIN pairs, tool \in ToolOutcomes : ProcessPair(i, tool)
    \/ OpenTable
    \/ WriteTable
    \/ OpenHaplotypes
    \/ WriteHaplotypes
    \/ EndFile
    \/ EndOfRun
    \/ StartAgain

SpecResume == InitResume /\ [][NextResume]_vars

\* The unordered sample pair of a row of the pairwise table
RowPair(row) == {row.Seq1, row.Seq2}

\* C20: over runs stopped at any point, a region whose two output files were
\* written completely is not processed again in a later run, and no pairwise
\* table in the output directory holds two rows for one sample pair
C20_IdempotentResume ==
    \A c \in Loci :
        /\ \A r \in 1..run_no :
              <<c, r>> \in recomputed => persisted_run[c] = 0 \/ r <= persisted_run[c]
        /\ \A k1, k2 \in DOMAIN out_dir[c].csv.rows :
              k1 # k2 => RowPair(out_dir[c].csv.rows[k1]) # RowPair(out_dir[c].csv.rows[k2])

\* A later run has ended in which one region, written in the first run, was
\* left alone while another one, stopped in the first run with its table
\* already written, was processed again and holds its single row
C20_Witness ==
    /\ run_no = 2
    /\ rs_pc = "exit"
    /\ \E c, d \in Loci :
          /\ persisted_run[c] = 1
          /\ <<c, 2>> \notin recomputed
          /\ {<<d, 1>>, <<d, 2>>} \subseteq recomputed
          /\ persisted_run[d] = 2
          /\ Len(out_dir[d].csv.rows) = 1

\* C21: a region that yields no pair returns None and writes no table, and
\* main goes on with the next file of its list; the run ends only when the
\* list is exhausted
C21_EmptyRegionSkipped ==
    [][/\ (rs_pc = "file" /\ pc = "start" /\ pc' = "done") =>
             /\ pairs' = <<>>
             /\ ret' = None
             /\ out_dir' = out_dir
       /\ (rs_pc = "file" /\ pc = "done" /\ pairs = <<>> /\ run_no' = run_no) =>
             /\ rs_pc' = "loop"
             /\ work_i' = work_i + 1
             /\ out_dir' = out_dir
       /\ (rs_pc = "loop" /\ rs_pc' = "exit") => work_i > Len(files_to_process)]_vars

\* A first run has ended in which the first file had no pair and left no
\* table, and the file after it was processed and written
C21_Witness ==
    /\ run_no = 1
    /\ rs_pc = "exit"
    /\ Len(files_to_process) = 2
    /\ GeneratePairs(Keys(parse_phy_file(phy_files[1].lines, <<>>)),
                     AssignGroups(Keys(parse_phy_file(phy_files[1].lines, <<>>)),
                                  phy_files[1].name.group)) = <<>>
    /\ ~out_dir[CdsId(phy_files[1].name)].csv.exists
    /\ persisted_run[CdsId(phy_files[2].name)] = 1

----------------------------------------------------------------------------
\* Further claims about src/pairwise_matrix_test.py

\* C22: whenever combine_cluster_evidence hands p-values to the combination,
\* it hands one weight per p-value, of the same regions in the same order, and
\* the weights can be normalised to sum 1
C22_OneWeightPerPvalue ==
    (cmb_pc = "done" /\ ~evidence.raised /\ evidence.combined_pvalue[1] = "stouffer") =>
        LET valid_pvals   == evidence.combined_pvalue[2]
            valid_weights == evidence.combined_pvalue[3]
            with_pvalue   == SelectSeq(ValidRows(MemberRows), LAMBDA row : ~row.p_value.nan)
        IN  /\ Len(valid_weights) = Len(valid_pvals)
            /\ Len(with_pvalue) = Len(valid_pvals)
            /\ \A k \in DOMAIN valid_weights :
                  k \in DOMAIN with_pvalue =>
                      valid_weights[k] =
                          WeightNum(with_pvalue[k].CDS, Lengths(cluster_cdss),
                                    SumOver(DOMAIN Lengths(cluster_cdss), Lengths(cluster_cdss)),
                                    Cardinality(cluster_cdss))
            /\ SumSeq(valid_weights) > 0

\* The region the sweep has just processed, and the active list as the
\* pruning left it (the entry appended for the region itself is the last one)
SweptRegion == cds_coords[sweep_i - 1]
ActiveAfterPruning == SubSeq(active_regions, 1, Len(active_regions) - 1)

\* C23: after the pruning for a region every remaining active entry is on
\* the region's chromosome and ends at or after the region's start
C23_PrunedActiveList ==
    (cl_pc = "sweep" /\ sweep_i > 1) =>
        \A k \in DOMAIN ActiveAfterPruning :
            /\ ActiveAfterPruning[k].c = SweptRegion.chrom
            /\ ActiveAfterPruning[k].e >= SweptRegion.start


-----------------------------------------------------------------------------
\* src/dnds.py : parse_codeml_output, and process_pair's use of what it returns

\* The files CODEML may leave in the working directory.  rst and results.txt
\* hold a line the regular expression matches, or none; 2ML.dN and 2ML.dS
\* hold the value in the last column of their third line
MissingTable == [exists |-> FALSE, match |-> FALSE, dN |-> 0, dS |-> 0, omega |-> 0]
TableWithoutMatch == [exists |-> TRUE, match |-> FALSE, dN |-> 0, dS |-> 0, omega |-> 0]
TableWith(dn, ds, w) == [exists |-> TRUE, match |-> TRUE, dN |-> dn, dS |-> ds, omega |-> w]

MissingBranchFile == [exists |-> FALSE, lines |-> 0, isfloat |-> FALSE, value |-> 0]
ShortBranchFile == [exists |-> TRUE, lines |-> 2, isfloat |-> FALSE, value |-> 0]
GarbledBranchFile == [exists |-> TRUE, lines |-> 3, isfloat |-> FALSE, value |-> 0]
BranchFileWith(v) == [exists |-> TRUE, lines |-> 3, isfloat |-> TRUE, value |-> v]

TableFiles == {MissingTable, TableWithoutMatch, TableWith(2, 1, 2)}
BranchFiles(values) ==
    {MissingBranchFile, ShortBranchFile, GarbledBranchFile} \cup
    {BranchFileWith(v) : v \in values}

WorkingDirs ==
    [rst : TableFiles, results_txt : TableFiles,
     ML_dN : BranchFiles({2}), ML_dS : BranchFiles({0, 1})]

\* (None, None, None), and a tuple of values; read is the set of files the
\* function looked for
NoneTuple(read) == [dN |-> NoResult, dS |-> NoResult, omega |-> NoResult, read |-> read]
ValueTuple(dn, ds, w, read) == [dN |-> Some(dn), dS |-> Some(ds), omega |-> Some(w), read |-> read]

\* The "last resort" block: any exception inside it ends in (None, None, None)
Parse2ML(dir, read) ==
    IF ~dir.ML_dN.exists
    THEN NoneTuple(read \cup {"2ML.dN"})
    ELSE IF dir.ML_dN.lines >= 3 /\ ~dir.ML_dN.isfloat
    THEN NoneTuple(read \cup {"2ML.dN"})
    ELSE IF ~dir.ML_dS.exists
    THEN NoneTuple(read \cup {"2ML.dN", "2ML.dS"})
    ELSE IF dir.ML_dS.lines >= 3 /\ ~dir.ML_dS.isfloat
    THEN NoneTuple(read \cup {"2ML.dN", "2ML.dS"})
    ELSE IF dir.ML_dN.lines < 3 \/ dir.ML_dS.lines < 3
    \* results['dN'] / results['dS'] or the ":.6f" of a None raises TypeError
    THEN NoneTuple(read \cup {"2ML.dN", "2ML.dS"})
    ELSE ValueTuple(dir.ML_dN.value, dir.ML_dS.value,
                    IF dir.ML_dS.value # 0
                    THEN Frac(dir.ML_dN.value, dir.ML_dS.value) ELSE FracNaN,
                    read \cup {"2ML.dN", "2ML.dS"})

parse_codeml_output(dir) ==
    IF dir.rst.exists /\ dir.rst.match
    THEN ValueTuple(dir.rst.dN, dir.rst.dS, Frac(dir.rst.omega, 1), {"rst"})
    ELSE IF ~dir.results_txt.exists
    THEN NoneTuple({"rst", "results.txt"})
    ELSE IF dir.results_txt.match
    THEN ValueTuple(dir.results_txt.dN, dir.results_txt.dS,
                    Frac(dir.results_txt.omega, 1), {"rst", "results.txt"})
    ELSE Parse2ML(dir, {"rst", "results.txt"})

\* process_pair after a successful run: omega of None becomes NaN, dN and dS
\* are passed on as they are
PairValues(parsed) ==
    [dN |-> parsed.dN, dS |-> parsed.dS,
     omega |-> IF parsed.omega = NoResult THEN FracNaN ELSE parsed.omega[1],
     read |-> parsed.read]

InitParse ==
    /\ DndsIdle /\ ClusterIdle /\ MatrixIdle /\ CombineIdle /\ LaterIdleButParse
    /\ codeml_out \in WorkingDirs
    /\ parse_pc = "ran"
    /\ parse_result = <<>>

ParseOutput ==
    /\ parse_pc = "ran"
    /\ parse_result' = PairValues(parse_codeml_output(codeml_out))
    /\ parse_pc' = "done"
    /\ UNCHANGED <<codeml_out, not_parse>>

NextParse == ParseOutput

SpecParse == InitParse /\ [][NextParse]_vars

\* The pair is recorded without values
PairWithoutValues == parse_result.dN = NoResult /\ parse_result.dS = NoResult /\ parse_result.omega.nan

\* Neither rst nor results.txt holds a line that parses
PrimaryUnparsable ==
    /\ ~(codeml_out.rst.exists /\ codeml_out.rst.match)
    /\ ~(codeml_out.results_txt.exists /\ codeml_out.results_txt.match)

\* Both per-branch files hold a value
AuxiliaryYield ==
    /\ codeml_out.ML_dN.exists /\ codeml_out.ML_dN.lines >= 3 /\ codeml_out.ML_dN.isfloat
    /\ codeml_out.ML_dS.exists /\ codeml_out.ML_dS.lines >= 3 /\ codeml_out.ML_dS.isfloat

\* C24: whenever the primary output cannot be parsed (missing, or without a
\* matching line) the per-branch files 2ML.dN / 2ML.dS are consulted before
\* the pair is given up, and the pair is without values only if no file
\* yields values
C24_FallbackInOrder ==
    parse_pc = "done" =>
        /\ PrimaryUnparsable => "2ML.dN" \in parse_result.read
        /\ PairWithoutValues => (PrimaryUnparsable /\ ~AuxiliaryYield)


-----------------------------------------------------------------------------
\* src/pairwise_matrix_test.py : the value of combine_cluster_evidence's
\* combine_pvalues(valid_pvals, method='stouffer', weights=valid_weights)

\* norm.isf(p) is +inf for p = 0; the weighted sum of the z-scores is then
\* +inf (NaN where the weight of that z-score is 0) and norm.sf(+inf) is 0.0
StoufferValue(pvals, weights) ==
    IF Len(weights) # Len(pvals) THEN "raise"
    ELSE IF SumSeq(weights) = 0 THEN "nan"
    ELSE IF \E k \in DOMAIN pvals : pvals[k].v = 0 /\ weights[k] = 0 THEN "nan"
    ELSE IF \E k \in DOMAIN pvals : pvals[k].v = 0 THEN "zero"
    ELSE "positive"

\* 'combined_pvalue': combined_p of the returned dict
CombinedP(ev) ==
    IF ev.combined_pvalue = <<"nan">> THEN "nan"
    ELSE StoufferValue(ev.combined_pvalue[2], ev.combined_pvalue[3])

\* C25: no combined p-value combine_cluster_evidence returns is exactly zero
\* (a combination that gives exactly zero is raised to the smallest positive
\* value before it is returned).
C25_NoZeroCombinedP ==
    (cmb_pc = "done" /\ ~evidence.raised) => CombinedP(evidence) # "zero"


-----------------------------------------------------------------------------
\* src/pairwise_matrix_test.py : build_overlap_clusters, the sweep's overlap set

\* overlapping_clusters of the iteration about to run
OverlappingNow ==
    OverlappingClusters(
        Prune(active_regions, cds_coords[sweep_i].chrom, cds_coords[sweep_i].start),
        cds_coords[sweep_i].chrom, cds_coords[sweep_i].start)

\* C26: for an input in which every region has start <= end, every iteration
\* of the sweep finds at most one overlapping cluster id, so no cluster is
\* merged into another and deleted: the ids in use stay exactly the ids
\* handed out so far.
C26_AtMostOneOverlap ==
    [][(cl_pc = "sweep" /\ sweep_i <= Len(cds_coords) /\ WellFormedInput
            /\ sweep_i' = sweep_i + 1) =>
          /\ Cardinality(OverlappingNow) <= 1
          /\ DOMAIN clusters \subseteq DOMAIN clusters'
          /\ DOMAIN clusters' = 0..(cluster_id' - 1)]_vars

\* The sweep of a well-formed input has ended with two clusters, one of which
\* grew by a region that overlapped it
C26_Witness ==
    /\ cl_pc = "done" /\ WellFormedInput
    /\ Cardinality(DOMAIN clusters) >= 2
    /\ \E cid \in DOMAIN clusters : Cardinality(clusters[cid]) >= 2


-----------------------------------------------------------------------------
\* src/pairwise_matrix_test.py : get_cache_path over the identifiers of a run

\* The task returned what load_cached_result gave it, without computing
ReturnedFromCache(i) ==
    /\ task_pc[i] = "returned"
    /\ <<cds_args[i].cds, run>> \notin computed

\* C27: different region identifiers never share a cache entry: what a task
\* gets from the cache (the file at get_cache_path of its identifier) is a
\* result that was saved for its own identifier, never one saved for another.
C27_NoSharedCacheEntry ==
    \A i \in Tasks :
        ReturnedFromCache(i) => task_result[i] = saved[cds_args[i].cds]


-----------------------------------------------------------------------------
\* src/pairwise_matrix_test.py : read_and_preprocess_data, and the suffix
\* rule analyze_cds_parallel applies to the ids it hands out

\* At most MaxRows rows in the CSV file
MaxRows == 2

\* Sample ids; the last character is the cohort
SampleIds == {<<"x", "0">>, <<"y", "1">>, <<"z", "0">>, <<"w", "1">>}

\* A row of the file: two different samples and an omega, which may be empty
RawRows ==
    {[Seq1 |-> a, Seq2 |-> b, omega |-> w] :
        a \in SampleIds, b \in SampleIds, w \in {Num(1), NaN}} \
    {[Seq1 |-> a, Seq2 |-> a, omega |-> w] : a \in SampleIds, w \in {Num(1), NaN}}

\* None in a column of sample ids (no sample id is empty)
NullId == <<>>

\* df.dropna(subset=['omega'])
DropNaOmega(df) == SelectSeq(df, LAMBDA row : ~row.omega.nan)

\* str(seq_id).endswith('1')
EndsWithOne(seq_id) == seq_id # <<>> /\ seq_id[Len(seq_id)] = "1"

assign_group(seq_id) == IF EndsWithOne(seq_id) THEN 1 ELSE 0

\* pd.concat([df['Seq1'], df['Seq2']]).dropna().unique(), as a set
UniqueSequenceIds(df) ==
    {df[n].Seq1 : n \in DOMAIN df} \cup {df[n].Seq2 : n \in DOMAIN df}

\* f"{seq_id}_{seq_id_counts[seq_id]}"
UniqueIdOf(seq_id, count) == seq_id \o <<"_">> \o Dec(count)

\* seq_id_mapping: every id of unique_sequence_ids is met once by the loop,
\* so its count is 1
SeqIdMapping(df) ==
    [key \in {<<seq_id, 1>> : seq_id \in UniqueSequenceIds(df)} |->
        UniqueIdOf(key[1], key[2])]

\* df.groupby(col).cumcount() + 1 of row n
Occurrence(df, col, n) ==
    Cardinality({m \in 1..n : df[m][col] = df[n][col]})

\* seq_id_mapping.get((x[col], x[col + '_occurrence']))
MappedId(df, col, n) ==
    IF <<df[n][col], Occurrence(df, col, n)>> \in DOMAIN SeqIdMapping(df)
    THEN SeqIdMapping(df)[<<df[n][col], Occurrence(df, col, n)>>]
    ELSE NullId

Renamed(df) ==
    [n \in DOMAIN df |->
        [Seq1 |-> MappedId(df, "Seq1", n), Seq2 |-> MappedId(df, "Seq2", n),
         Seq1_original |-> df[n].Seq1, Seq2_original |-> df[n].Seq2,
         omega |-> df[n].omega]]

read_and_preprocess_data(df) == Renamed(DropNaOmega(df))

\* analyze_cds_parallel, lines 838-839: a sample is of cohort 1 when its id
\* ends with '1', of cohort 0 otherwise
SuffixCohort(seq) == IF EndsWithOne(seq) THEN 1 ELSE 0

InitPrep ==
    /\ DndsIdle /\ ClusterIdle /\ MatrixIdle /\ CombineIdle /\ LaterIdleButPrep
    /\ raw_df \in SeqsUpTo(RawRows, MaxRows)
    /\ prep_pc = "start"
    /\ prep_df = <<>>

ReadAndPreprocess ==
    /\ prep_pc = "start"
    /\ prep_df' = read_and_preprocess_data(raw_df)
    /\ prep_pc' = "done"
    /\ UNCHANGED <<raw_df, not_prep>>

NextPrep == ReadAndPreprocess

SpecPrep == InitPrep /\ [][NextPrep]_vars

\* C28: read_and_preprocess_data keeps every row's two sample ids (none is
\* None after the renaming), and the suffix rule of analyze_cds_parallel
\* puts a renamed id in the cohort its original id marks.
C28_IdentityAndCohortKept ==
    prep_pc = "done" =>
        \A n \in DOMAIN prep_df :
            /\ prep_df[n].Seq1 # NullId /\ prep_df[n].Seq2 # NullId
            /\ SuffixCohort(prep_df[n].Seq1) = assign_group(prep_df[n].Seq1_original)
            /\ SuffixCohort(prep_df[n].Seq2) = assign_group(prep_df[n].Seq2_original)


-----------------------------------------------------------------------------
\* src/dnds.py : process_phy_file, the loop over pool.imap_unordered

\* C29: in one region run every generated pair is handed to the pool once:
\* each completion, in whatever order, takes exactly one outstanding pair and
\* raises the progress counter by exactly one (also when the result is
\* discarded), and the counter equals the number of pairs when the loop ends.
C29_ProgressCountsEveryPair ==
    [][/\ (pc = "pool" /\ pending' # pending) =>
             /\ \E i \in pending : pending' = pending \ {i}
             /\ completed' = completed + 1
       /\ (pc = "pool" /\ completed' # completed) =>
             /\ completed' = completed + 1
             /\ completed' + Cardinality(pending') = Len(pairs)
       /\ (pc = "pool" /\ pc' = "done") =>
             /\ completed = Len(pairs)
             /\ pending = {}]_vars

\* The loop has ended after several pairs that completed in another order
\* than they were generated in: the last pair's result came first
C29_Witness ==
    /\ pc = "done"
    /\ Len(pairs) >= 2
    /\ completed = Len(pairs)
    /\ Len(results) = completed
    /\ results[1].Seq1 = Strip(pairs[Len(pairs)][1])
    /\ results[1].Seq2 = Strip(pairs[Len(pairs)][2])


-----------------------------------------------------------------------------
\* src/pairwise_matrix_test.py : load_cached_result on a file pickle cannot read

\* C30: a cache entry that cannot be read counts as absent: the load gives no
\* result and does not raise, the region is computed again, and once the task
\* has returned the entry holds the recomputed result, so that a load for
\* that identifier returns it.
C30_CorruptEntryRecomputed ==
    \A i \in load_failed :
        /\ task_pc[i] \in {"miss", "computed", "opened", "raised", "returned"}
        /\ task_pc[i] # "miss" => <<cds_args[i].cds, run>> \in computed
        /\ task_pc[i] = "returned" =>
              load_cached_result(cds_args[i].cds, cache_dir) = task_result[i]

====
